---- MODULE Spec2Model ----
(***************************************************************************)
(* Model of the art-blocks-gallery client library (src/lib/ab.ts).         *)
(*                                                                         *)
(* Part 1: the request cache and limiter (graphqlRequest,                  *)
(*         processRequestQueue): one JavaScript event loop, so every       *)
(*         action is one synchronous run between two awaits.               *)
(* Part 2: the selection codec (serializeSelection, decodeFully,           *)
(*         parseSelection), run one loop iteration per action.             *)
(* Part 3: the selection resolvers (resolveSelectionTokenIds,              *)
(*         resolveSelectionToTokenEntries) and their pagers, run from one  *)
(*         await of graphqlRequest to the next over a small remote index.  *)
(* Part 4: the name-resolution cache (resolveEnsToAddress,                 *)
(*         resolveAddressToEns), run from one await to the next.           *)
(* Part 5: the load effect of the gallery player and its cancellation.     *)
(* Part 6: truncateEthAddress.                                             *)
(***************************************************************************)
EXTENDS Integers, Sequences, FiniteSets, TLC

(***************************************************************************)
(* Bounds of the model.  The limiter is explored under two budgets of the  *)
(* environment: Spec (calls with several queries, few failures) and        *)
(* RetrySpec (calls with one query, enough failures to exhaust the         *)
(* retries, timers and fetches that complete).                             *)
(***************************************************************************)
\* graphqlRequest calls that miss the cache and join no pending request
MaxRequests == 3
RetryRequests == 3
\* answers of the remote other than a success (and fetch calls that throw)
MaxFailures == 1
RetryFailures == 3
\* time advances that end at no timer deadline and no cache expiry,
\* and their length in ms
MaxShortTicks == 1
RetryShortTicks == 1
ShortDelay == 30
\* items of a cart; pieces of a raw parameter; form-encodings applied to it
MaxItems == 2
MaxPieces == 3
MaxEncodings == 2
\* Selections have at most MaxSelection items; max ranges over 0..MaxMax.
MaxSelection == 2
MaxMax == 3
\* tokensByIdWithLiveView is called with at most MaxIds identifiers.
MaxIds == 3
\* const pageSize = 100 and const chunkSize = 50, scaled down to the size of
\* the index the model holds.
PageSize == 2
ChunkSize == 2
\* graphqlRequest resolves to null at most MaxNullAnswers times in a call.
MaxNullAnswers == 1
\* At most MaxLookups lookups of the name service are started.
MaxLookups == 2
\* The load effect of the gallery player runs at most MaxLoads times.
MaxLoads == 2
\* truncateEthAddress is asked for prefixes and suffixes of up to MaxAffix
\* characters, or of the default lengths.
MaxAffix == 2
\* useGridData: loadTokens is called at most MaxGridLoads times, for up to
\* MaxRequestedItems items.
MaxGridLoads == 3
MaxRequestedItems == 2

(***************************************************************************)
(* Program constants.                                                      *)
(***************************************************************************)
CACHE_TTL == 300000
MIN_REQUEST_INTERVAL == 100
\* while (attempts < 3)
MAX_ATTEMPTS == 3
\* Math.min(1000 * Math.pow(2, attempts), 10000)
RATE_LIMIT_BASE == 1000
RATE_LIMIT_CAP == 10000
\* setTimeout(r, 500 * attempts)
HTTP_RETRY_STEP == 500
\* searchTokensByGraphQLAll: while (attempts < 3)
MAX_PAGE_ATTEMPTS == 3
\* totalExpected += 5000, += 1000, and the fallback 1000 of a project
ARTIST_ESTIMATE == 5000
COLLECTOR_ESTIMATE == 1000
PROJECT_ESTIMATE == 1000

VARIABLES
    requestCache,       \* cache key -> CacheEntry, or NoEntry
    pending,            \* cache key -> id of the promise stored, 0 when none
    lastRequestTime,
    requestQueue,       \* the queued closures, as request ids
    isProcessingQueue,
    drainer,            \* where processRequestQueue is suspended
    reqs,               \* the promise created by each cache miss, and its closure's position
    nFailures,          \* failed fetches so far
    lastDispatch,       \* the latest nextRequest() call: request id, time, and
                        \* the time since the one before (gap)
    lastFetch,          \* the time of the latest fetch(...) call
    shortTicks

limiterVars == <<requestCache, pending, lastRequestTime, requestQueue,
                 isProcessingQueue, drainer, reqs, nFailures,
                 lastDispatch, lastFetch, shortTicks>>

(***************************************************************************)
(* The selection codec: one parseSelection call, from the list a page      *)
(* serializes or from a raw parameter, followed through its steps.         *)
(***************************************************************************)
VARIABLES
    cart,               \* the items given to serializeSelection (<<>> when none)
    param,              \* the argument of parseSelection
    codecPc,            \* where the call is: serialize, called, decoding,
                        \* decoded, returned
    prev,               \* decodeFully: the string decoded so far
    rounds,             \* decodeFully: iterations of its loop
    items               \* parseSelection: the list it returns

codecVars == <<cart, param, codecPc, prev, rounds, items>>

(***************************************************************************)
(* The selection resolvers: one call of resolveSelectionTokenIds, of       *)
(* resolveSelectionToTokenEntries or of one of the pagers, followed from   *)
(* one await of graphqlRequest to the next.                                *)
(***************************************************************************)
VARIABLES
    call,               \* the call under way: function and arguments
    frame,              \* the locals of the resolver: loop position, items
                        \* index, entriesMap, uniqueIds, uniqueTokens,
                        \* totalExpected, the value returned
    pager,              \* the locals of the pager the resolver awaits
    awaited,            \* the request whose answer the call awaits
    trace,              \* the requests issued so far, each with its answer
    snapshots,          \* the calls of onProgress so far
    nullAnswers         \* requests answered with null so far

resolverVars == <<call, frame, pager, awaited, trace, snapshots, nullAnswers>>

(***************************************************************************)
(* The name-resolution cache (resolveEnsToAddress, resolveAddressToEns).   *)
(***************************************************************************)
VARIABLES
    ensCache,           \* cache key -> CacheEntry, or NoEntry
    ensPending,         \* cache key -> id of the lookup stored, 0 when none
    lookups,            \* the lookups started, each at its await or done
    lastEnsCall         \* the latest call and what it returned

ensVars == <<ensCache, ensPending, lookups, lastEnsCall>>

(***************************************************************************)
(* The gallery player's load effect (src/unnamed/part_001).                *)
(***************************************************************************)
VARIABLES
    mounted,            \* the component is mounted
    loads,              \* the runs of the load effect, each with its
                        \* `cancelled` flag and its position
    gallery,            \* the React state the effect sets
    refs                \* galleryInitializedRef, lastLoadedCountRef,
                        \* currentTokenIdRef

playerVars == <<mounted, loads, gallery, refs>>

(***************************************************************************)
(* One call of truncateEthAddress (src/lib/utils.ts).                      *)
(***************************************************************************)
VARIABLES
    truncation          \* the arguments, and the string returned

utilVars == <<truncation>>

(***************************************************************************)
(* The grid's data hook (useGridData of src/hooks/useGridData.ts).         *)
(***************************************************************************)
VARIABLES
    gridMounted,        \* the component that uses the hook is mounted
    gridProps,          \* slug and requestedItems of the last render
    mountedRef,         \* mountedRef.current
    gridLoads,          \* the calls of loadTokens, each with the slug and
                        \* the count of its closure, awaiting or done
    gridState           \* the hook's state

gridVars == <<gridMounted, gridProps, mountedRef, gridLoads, gridState>>

vars == <<limiterVars, codecVars, resolverVars, ensVars, playerVars, utilVars,
          gridVars>>

(***************************************************************************)
(* Time.  The code reads the clock only to subtract a stored instant from  *)
(* it (Date.now() - entry.timestamp, now - lastRequestTime) and to arm     *)
(* timers, so instants are kept relative to the current one: Date.now() is *)
(* 0, a stored instant is 0 or negative, a timer deadline is 0 or positive.*)
(* When d ms pass every stored instant moves back by d (Elapse).  An       *)
(* instant older than any duration the code compares it with is clamped to *)
(* the oldest value that still decides every comparison the same way.      *)
(***************************************************************************)
now == 0

Max(a, b) == IF a >= b THEN a ELSE b

(***************************************************************************)
(* getCacheKey: JSON.stringify({query: query.replace(/\s+/g,' ').trim(),   *)
(* variables}).  A query text is a sequence of characters.                 *)
(***************************************************************************)
IsSpaceChar(c) == c \in {" ", "\n", "\t"}

RECURSIVE DropSpaces(_)
DropSpaces(s) ==
    IF s = <<>> THEN <<>>
    ELSE IF IsSpaceChar(Head(s)) THEN DropSpaces(Tail(s)) ELSE s

\* query.replace(/\s+/g, ' ')
RECURSIVE CollapseSpaces(_)
CollapseSpaces(s) ==
    IF s = <<>> THEN <<>>
    ELSE IF IsSpaceChar(Head(s))
         THEN <<" ">> \o CollapseSpaces(DropSpaces(Tail(s)))
         ELSE <<Head(s)>> \o CollapseSpaces(Tail(s))

RECURSIVE DropTrailingSpaces(_)
DropTrailingSpaces(s) ==
    IF s = <<>> THEN <<>>
    ELSE IF IsSpaceChar(s[Len(s)]) THEN DropTrailingSpaces(SubSeq(s, 1, Len(s) - 1))
    ELSE s

TrimSpaces(s) == DropTrailingSpaces(DropSpaces(s))

getCacheKey(query, variables) == <<TrimSpaces(CollapseSpaces(query)), variables>>

\* The calls the environment makes: query text and variables.
QueryA  == <<"a", " ", "b">>
QueryA2 == <<"\n", " ", "a", " ", "\n", "b", " ">>
QueryB  == <<"a", "b">>
Inputs == { [query |-> QueryA,  variables |-> "v"],
            [query |-> QueryA2, variables |-> "v"],
            [query |-> QueryB,  variables |-> "v"] }
Keys == { getCacheKey(i.query, i.variables) : i \in Inputs }

\* The data field of a response body.
Data == {"d1"}

NoEntry == [present |-> FALSE, data |-> "null", timestamp |-> 0, ttl |-> 0]

\* A variant of isExpired that expires an entry one millisecond early.
isExpiredAtTTL(entry) == now - entry.timestamp >= entry.ttl

\* isExpired(entry)
isExpired(entry) == now - entry.timestamp > entry.ttl


(***************************************************************************)
(* The mutable module state the synchronous code below reads and writes,   *)
(* gathered in one record so that a run of nested calls is one expression. *)
(***************************************************************************)
Machine ==
    [queue   |-> requestQueue,
     last    |-> lastRequestTime,
     proc    |-> isProcessingQueue,
     drainer |-> drainer,
     reqs    |-> reqs,
     pending |-> pending,
     cache   |-> requestCache,
     log     |-> lastDispatch,
     fetch   |-> lastFetch,
     failed  |-> nFailures]

\* A promise and its closure.  pc: queued (in requestQueue), fetching (at
\* `await fetch`), backoff (at `await new Promise(r => setTimeout(r, ...))`),
\* done.  attempts is the closure's counter, wake its timer's deadline, and
\* answered what the remote has answered so far: nothing, only rate-limit
\* errors ("rl"), or something else too ("mixed").
NewRequest(key) ==
    [key |-> key, pc |-> "queued", attempts |-> 0, wake |-> 0,
     result |-> "pending", answered |-> "none"]

Min(a, b) == IF a <= b THEN a ELSE b

RECURSIVE Pow2(_)
Pow2(n) == IF n = 0 THEN 1 ELSE 2 * Pow2(n - 1)

\* const backoffTime = Math.min(1000 * Math.pow(2, attempts), 10000)
backoffTime(attempts) == Min(RATE_LIMIT_BASE * Pow2(attempts), RATE_LIMIT_CAP)

\* setTimeout(r, 500 * attempts)
httpRetryDelay(attempts) == HTTP_RETRY_STEP * attempts

\* The cacheKey of a closure that has run to its end.
NoKey == <<<<>>, "">>

\* resolve(value): the promise settles (a second resolve would change nothing)
resolvePromise(m, id, value) ==
    IF m.reqs[id].result = "pending"
    THEN [m EXCEPT !.reqs[id].result = value]
    ELSE m

\* finally { pending.delete(cacheKey) }: the closure has run to its end, and
\* its locals are gone
finallyBlock(m, id) ==
    [m EXCEPT !.pending[m.reqs[id].key] = 0,
              !.reqs[id].pc = "done", !.reqs[id].key = NoKey, !.reqs[id].attempts = 0,
              !.reqs[id].wake = 0, !.reqs[id].answered = "none"]

\* A variant of the catch block that settles nothing: catch (error) { throw error }
catchRethrows(m, id) == finallyBlock(m, id)

\* catch (error) { console.error(...); resolve(null) } finally {...}
catchError(m, id) == finallyBlock(resolvePromise(m, id, "null"), id)

\* console.error('... failed after 3 attempts'); resolve(null) ... finally
allAttemptsFailed(m, id) == finallyBlock(resolvePromise(m, id, "null"), id)

\* const res = await fetch(AB_GQL_ENDPOINT, {...}): the call is sent
fetch(m) == [m EXCEPT !.fetch = now]

\* A variant of the retry loop with one attempt more: while (attempts <= 3)
startAttemptOnceMore(m, id, throws) ==
    IF m.reqs[id].attempts <= MAX_ATTEMPTS
    THEN LET m1 == [m EXCEPT !.reqs[id].attempts = @ + 1] IN
         IF throws
         THEN catchError([m1 EXCEPT !.failed = @ + 1], id)
         ELSE fetch([m1 EXCEPT !.reqs[id].pc = "fetching", !.reqs[id].wake = 0])
    ELSE allAttemptsFailed(m, id)

\* The head of the retry loop: while (attempts < 3) { attempts++; fetch(...)
\* `throws`: fetch(...) (or JSON.stringify of the body) throws before any await.
startAttempt(m, id, throws) ==
    IF m.reqs[id].attempts < MAX_ATTEMPTS
    THEN LET m1 == [m EXCEPT !.reqs[id].attempts = @ + 1] IN
         IF throws
         THEN catchError([m1 EXCEPT !.failed = @ + 1], id)
         ELSE fetch([m1 EXCEPT !.reqs[id].pc = "fetching", !.reqs[id].wake = 0])
    ELSE allAttemptsFailed(m, id)

\* A variant of the cache write that keeps the timestamp of the entry it
\* replaces.
cacheKeepsTimestamp(m, id, data) ==
    [m EXCEPT !.cache[m.reqs[id].key] =
        [present |-> TRUE, data |-> data,
         timestamp |-> IF @.present THEN @.timestamp ELSE now, ttl |-> CACHE_TTL]]

\* requestCache.set(cacheKey, {data, timestamp: Date.now(), ttl: CACHE_TTL})
cacheResult(m, id, data) ==
    [m EXCEPT !.cache[m.reqs[id].key] =
        [present |-> TRUE, data |-> data, timestamp |-> now, ttl |-> CACHE_TTL]]

\* What the remote can answer to one fetch.
Outcomes == {"ok_data", "ok_nodata", "rate_limited", "http_error",
             "bad_json", "fetch_reject"}
Failures == Outcomes \ {"ok_data", "ok_nodata"}

\* The closure from `await fetch` to its next await or its end.
\*   fetch_reject: fetch rejects;  bad_json: res.json() rejects;
\*   rate_limited: json.errors carries the rate-limit-exceeded code;
\*   http_error: !res.ok, JSON body;  ok_nodata: res.ok, no "data" in json.
onFetchSettled(m, id, outcome, data) ==
    LET m1 == [m EXCEPT !.failed = IF outcome \in Failures THEN @ + 1 ELSE @,
                        !.reqs[id].answered =
                            IF outcome = "rate_limited" /\ @ \in {"none", "rl"}
                            THEN "rl" ELSE "mixed"]
        n  == m.reqs[id].attempts
    IN  CASE outcome \in {"fetch_reject", "bad_json"} -> catchError(m1, id)
          [] outcome = "rate_limited" ->
                [m1 EXCEPT !.reqs[id].pc = "backoff",
                           !.reqs[id].wake = now + backoffTime(n)]
          [] outcome = "http_error" ->
                [m1 EXCEPT !.reqs[id].pc = "backoff",
                           !.reqs[id].wake = now + httpRetryDelay(n)]
          [] outcome = "ok_data" ->
                finallyBlock(resolvePromise(cacheResult(m1, id, data), id, data), id)
          [] outcome = "ok_nodata" ->
                finallyBlock(resolvePromise(cacheResult(m1, id, "null"), id, "null"), id)

\* A variant of the dispatch that takes the newest request: requestQueue.pop()
dispatchLast(m, throws) ==
    LET id == m.queue[Len(m.queue)]
        m1 == [m EXCEPT !.queue = SubSeq(@, 1, Len(@) - 1), !.last = now,
                        !.log = [id |-> id, at |-> now, prev |-> m.log.id,
                                 gap |-> Min(now - m.log.at, MIN_REQUEST_INTERVAL)]]
    IN  startAttempt(m1, id, throws)

\* const nextRequest = requestQueue.shift(); lastRequestTime = Date.now(); nextRequest()
dispatchNext(m, throws) ==
    LET id == Head(m.queue)
        m1 == [m EXCEPT !.queue = Tail(@), !.last = now,
                        !.log = [id |-> id, at |-> now, prev |-> m.log.id,
                                 gap |-> Min(now - m.log.at, MIN_REQUEST_INTERVAL)]]
    IN  startAttempt(m1, id, throws)

\* The while loop of processRequestQueue from its head to the next await or
\* to its end.  After one dispatch Date.now() - lastRequestTime is 0, so a
\* synchronous run dispatches at most once.
RECURSIVE drainLoop(_, _)
drainLoop(m, throws) ==
    IF Len(m.queue) > 0
    THEN IF now - m.last < MIN_REQUEST_INTERVAL
         THEN [m EXCEPT !.drainer =
                  [state |-> "sleeping", wake |-> now + (MIN_REQUEST_INTERVAL - (now - m.last))]]
         ELSE drainLoop(dispatchNext(m, throws), throws)
    ELSE [m EXCEPT !.proc = FALSE, !.drainer = [state |-> "idle", wake |-> 0]]

\* processRequestQueue(), called from graphqlRequest
processRequestQueue(m, throws) ==
    IF m.proc \/ Len(m.queue) = 0
    THEN m
    ELSE drainLoop([m EXCEPT !.proc = TRUE], throws)

\* A variant of the drainer that leaves its loop when its setTimeout fires,
\* dispatching nothing.
drainerGivesUp(m, throws) ==
    [m EXCEPT !.proc = FALSE, !.drainer = [state |-> "idle", wake |-> 0]]

\* processRequestQueue resumed after its setTimeout: no second look at the clock
drainerResume(m, throws) == drainLoop(dispatchNext(m, throws), throws)

\* The request of `key` whose closure has not run to its end, 0 when none.
InFlight(rs, key) ==
    LET S == {i \in 1..Len(rs) : rs[i].key = key /\ rs[i].pc # "done"}
    IN  IF S = {} THEN 0 ELSE CHOOSE i \in S : TRUE

\* The environment: whether the next fetch call may throw, F failures allowed.
MayThrow(F) == IF nFailures < F THEN BOOLEAN ELSE {FALSE}


Install(m) ==
    /\ requestQueue' = m.queue
    /\ lastRequestTime' = m.last
    /\ isProcessingQueue' = m.proc
    /\ drainer' = m.drainer
    /\ reqs' = m.reqs
    /\ pending' = m.pending
    /\ requestCache' = m.cache
    /\ lastDispatch' = m.log
    /\ lastFetch' = m.fetch
    /\ nFailures' = m.failed
    /\ UNCHANGED <<codecVars, resolverVars, ensVars, playerVars, utilVars, gridVars>>

(***************************************************************************)
(* graphqlRequest(query, variables): it has no await, so one call is one   *)
(* synchronous run: cache check, pending check, then the Promise executor  *)
(* (push the closure, call processRequestQueue()), then pending.set.       *)
(***************************************************************************)
\* const cached = requestCache.get(cacheKey); if (cached && !isExpired(cached))
cacheHit(key) == requestCache[key].present /\ ~isExpired(requestCache[key])

\* A variant of the pending lookup that finds nothing.
pendingForgotten(key) == 0

\* const pendingRequest = pending.get(cacheKey); if (pendingRequest)
pendingRequest(key) == pending[key]

\* new Promise(executor); pending.set(cacheKey, requestPromise)
newRequest(key, throws) ==
    LET id == Len(reqs) + 1
        m0 == [Machine EXCEPT !.reqs = Append(@, NewRequest(key)),
                              !.queue = Append(@, id)]
        m1 == processRequestQueue(m0, throws)
    IN  [m1 EXCEPT !.pending[key] = id]

\* What a call returns: the cached data, or a promise (by request id).
callResult(key) ==
    IF cacheHit(key)
    THEN [kind |-> "hit", data |-> requestCache[key].data, promise |-> 0]
    ELSE IF pendingRequest(key) # 0
    THEN [kind |-> "joined", data |-> "none", promise |-> pendingRequest(key)]
    ELSE [kind |-> "new", data |-> "none", promise |-> Len(reqs) + 1]

\* A call changes the state only when it creates a promise.
graphqlRequest(input, throws) ==
    LET key == getCacheKey(input.query, input.variables) IN
    IF callResult(key).kind = "new"
    THEN /\ Install(newRequest(key, throws))
         /\ UNCHANGED shortTicks
    ELSE UNCHANGED vars

\* The setTimeout of processRequestQueue fires (at its deadline or later).
DrainerWake(throws) ==
    /\ drainer.state = "sleeping"
    /\ now >= drainer.wake
    /\ Install(drainerResume(Machine, throws))
    /\ UNCHANGED shortTicks

\* The fetch of request id settles, and with it res.json().
FetchSettle(id, outcome, data) ==
    /\ id \in 1..Len(reqs)
    /\ reqs[id].pc = "fetching"
    /\ Install(onFetchSettled(Machine, id, outcome, data))
    /\ UNCHANGED shortTicks

\* The backoff setTimeout of request id fires: `continue`.
RetryTimer(id, throws) ==
    /\ id \in 1..Len(reqs)
    /\ reqs[id].pc = "backoff"
    /\ now >= reqs[id].wake
    /\ Install(startAttempt(Machine, id, throws))
    /\ UNCHANGED shortTicks

\* How far away the instants are at which something changes: the timer
\* deadlines, and for every cache entry the last instant it is served
\* (timestamp + ttl) and the first at which it is expired.
Deadlines ==
    (IF drainer.state = "sleeping" THEN {drainer.wake} ELSE {})
    \cup {reqs[i].wake : i \in {j \in 1..Len(reqs) : reqs[j].pc = "backoff"}}
    \cup UNION {{requestCache[k].timestamp + requestCache[k].ttl,
                 requestCache[k].timestamp + requestCache[k].ttl + 1}
                : k \in {j \in Keys : requestCache[j].present}}

\* d ms pass.
Elapse(d) ==
    /\ lastRequestTime' = Max(lastRequestTime - d, 0 - MIN_REQUEST_INTERVAL)
    /\ lastDispatch' = [lastDispatch EXCEPT !.at = Max(@ - d, 0 - MIN_REQUEST_INTERVAL)]
    /\ lastFetch' = Max(lastFetch - d, 0 - MIN_REQUEST_INTERVAL)
    /\ drainer' = [drainer EXCEPT !.wake = Max(@ - d, 0)]
    /\ reqs' = [i \in 1..Len(reqs) |-> [reqs[i] EXCEPT !.wake = Max(@ - d, 0)]]
    /\ requestCache' =
          [k \in Keys |->
              IF requestCache[k].present
              THEN [requestCache[k] EXCEPT
                       !.timestamp = Max(@ - d, 0 - (requestCache[k].ttl + 1))]
              ELSE requestCache[k]]
    /\ UNCHANGED <<pending, requestQueue, isProcessingQueue, nFailures>>
    /\ UNCHANGED <<codecVars, resolverVars, ensVars, playerVars, utilVars, gridVars>>

\* Time passes up to the next of these instants.  A timer fires at its
\* deadline or at any later instant: time may pass it by.
Tick ==
    /\ \E t \in {d \in Deadlines : d > 0} :
          /\ \A d \in Deadlines : d > 0 => t <= d
          /\ Elapse(t)
    /\ UNCHANGED shortTicks

\* A shorter time passes, where the code can tell: within
\* MIN_REQUEST_INTERVAL of the last dispatch.
ShortTick ==
    /\ shortTicks' = shortTicks + 1
    /\ now - lastRequestTime < MIN_REQUEST_INTERVAL
    /\ Elapse(ShortDelay)

LimiterInit ==
    /\ requestCache = [k \in Keys |-> NoEntry]
    /\ pending = [k \in Keys |-> 0]
    /\ lastRequestTime = 0 - MIN_REQUEST_INTERVAL
    /\ requestQueue = <<>>
    /\ isProcessingQueue = FALSE
    /\ drainer = [state |-> "idle", wake |-> 0]
    /\ reqs = <<>>
    /\ nFailures = 0
    /\ lastDispatch = [id |-> 0, at |-> 0 - MIN_REQUEST_INTERVAL, prev |-> 0,
                       gap |-> MIN_REQUEST_INTERVAL]
    /\ lastFetch = 0 - MIN_REQUEST_INTERVAL
    /\ shortTicks = 0

(***************************************************************************)
(* Part 2: the selection codec.  A string is the sequence of its UTF-16    *)
(* code units.                                                             *)
(***************************************************************************)
\* The printable ASCII characters, from code 32 on (the grave accent, code
\* 96, by its name).
AsciiChars ==
    <<" ", "!", "\"", "#", "$", "%", "&", "'", "(", ")", "*", "+", ",", "-", ".", "/",
      "0", "1", "2", "3", "4", "5", "6", "7", "8", "9", ":", ";", "<", "=", ">", "?",
      "@", "A", "B", "C", "D", "E", "F", "G", "H", "I", "J", "K", "L", "M", "N", "O",
      "P", "Q", "R", "S", "T", "U", "V", "W", "X", "Y", "Z", "[", "\\", "]", "^", "_",
      "grave", "a", "b", "c", "d", "e", "f", "g", "h", "i", "j", "k", "l", "m", "n", "o",
      "p", "q", "r", "s", "t", "u", "v", "w", "x", "y", "z", "{", "|", "}", "~">>

Code(ch) == 31 + (CHOOSE i \in 1..Len(AsciiChars) : AsciiChars[i] = ch)

\* The string written as a tuple of characters.
Str(chars) == [i \in 1..Len(chars) |-> Code(chars[i])]

PLUS == Code("+")
SPACE == Code(" ")
PERCENT == Code("%")
COMMA == Code(",")
COLON == Code(":")

\* The code units String.prototype.trim removes (WhiteSpace and LineTerminator).
WhiteSpace ==
    {9, 10, 11, 12, 13, 32, 160, 5760, 8232, 8233, 8239, 8287, 12288, 65279}
    \cup (8192..8202)

\* prev.replace(/\+/g, ' ')
replacePlus(s) == [i \in 1..Len(s) |-> IF s[i] = PLUS THEN SPACE ELSE s[i]]

\* The value of a hexadecimal digit, -1 for any other code unit.
HexValue(c) ==
    IF c \in 48..57 THEN c - 48
    ELSE IF c \in 65..70 THEN c - 55
    ELSE IF c \in 97..102 THEN c - 87
    ELSE 0 - 1

\* The octet that %XX at position k of s writes, -1 when there is none.
OctetAt(s, k) ==
    IF k + 2 > Len(s) \/ s[k] # PERCENT THEN 0 - 1
    ELSE IF HexValue(s[k + 1]) < 0 \/ HexValue(s[k + 2]) < 0 THEN 0 - 1
    ELSE 16 * HexValue(s[k + 1]) + HexValue(s[k + 2])

\* The length of the UTF-8 sequence a leading octet announces, 0 when the
\* octet can lead none.
SequenceLength(b) ==
    IF b < 128 THEN 1
    ELSE IF b \in 192..223 THEN 2
    ELSE IF b \in 224..239 THEN 3
    ELSE IF b \in 240..247 THEN 4
    ELSE 0

\* The code point of the n-octet sequence at position k of s, -1 when the
\* octets form no well-formed UTF-8 sequence.
RECURSIVE Continuation(_, _, _, _)
Continuation(s, k, n, acc) ==
    IF n = 0 THEN acc
    ELSE LET b == OctetAt(s, k) IN
         IF b \notin 128..191 THEN 0 - 1
         ELSE Continuation(s, k + 3, n - 1, acc * 64 + (b - 128))

CodePointAt(s, k) ==
    LET b  == OctetAt(s, k)
        n  == SequenceLength(b)
        cp == IF n = 2 THEN Continuation(s, k + 3, 1, b - 192)
              ELSE IF n = 3 THEN Continuation(s, k + 3, 2, b - 224)
              ELSE Continuation(s, k + 3, 3, b - 240)
    IN  IF b < 0 \/ n = 0 THEN 0 - 1
        ELSE IF n = 1 THEN b
        ELSE IF n = 2 /\ cp >= 128 THEN cp
        ELSE IF n = 3 /\ cp >= 2048 /\ cp \notin 55296..57343 THEN cp
        ELSE IF n = 4 /\ cp \in 65536..1114111 THEN cp
        ELSE 0 - 1

\* The code units of a code point: itself, or a surrogate pair.
CodeUnits(cp) ==
    IF cp < 65536 THEN <<cp>>
    ELSE <<55296 + ((cp - 65536) \div 1024), 56320 + ((cp - 65536) % 1024)>>

\* decodeURIComponent(s): ok is FALSE when it throws a URIError.
RECURSIVE decodeFrom(_, _, _)
decodeFrom(s, k, acc) ==
    IF k > Len(s) THEN [ok |-> TRUE, s |-> acc]
    ELSE IF s[k] # PERCENT THEN decodeFrom(s, k + 1, Append(acc, s[k]))
    ELSE LET cp == CodePointAt(s, k) IN
         IF cp < 0 THEN [ok |-> FALSE, s |-> <<>>]
         ELSE decodeFrom(s, k + 3 * SequenceLength(OctetAt(s, k)), acc \o CodeUnits(cp))

decodeURIComponent(s) == decodeFrom(s, 1, <<>>)

\* A variant of the loop that always returns after its first decoding.
decodeRoundOnce(p) ==
    LET withSpaces == replacePlus(p)
        next       == decodeURIComponent(withSpaces)
    IN  IF ~next.ok THEN [returns |-> TRUE, value |-> p]
        ELSE [returns |-> TRUE, value |-> next.s]

\* One iteration of the loop of decodeFully on prev: whether it returns, and
\* the string it returns or carries into the next iteration.
\*   try { withSpaces = ...; next = decodeURIComponent(withSpaces)
\*         if (next === prev || next === withSpaces) return next; prev = next }
\*   catch { return prev }
decodeRound(p) ==
    LET withSpaces == replacePlus(p)
        next       == decodeURIComponent(withSpaces)
    IN  IF ~next.ok THEN [returns |-> TRUE, value |-> p]
        ELSE IF next.s = p \/ next.s = withSpaces THEN [returns |-> TRUE, value |-> next.s]
        ELSE [returns |-> FALSE, value |-> next.s]

\* decodeFully(s)
RECURSIVE decodeFully(_)
decodeFully(s) ==
    LET r == decodeRound(s) IN
    IF r.returns THEN r.value ELSE decodeFully(r.value)

\* part.indexOf(':'): the 0-based index of the first c in s, -1 when none
indexOf(s, c) ==
    IF \E i \in 1..Len(s) : s[i] = c
    THEN (CHOOSE i \in 1..Len(s) : s[i] = c /\ \A j \in 1..(i - 1) : s[j] # c) - 1
    ELSE 0 - 1

\* decoded.split(',')
RECURSIVE split(_, _)
split(s, sep) ==
    LET idx == indexOf(s, sep) IN
    IF idx < 0 THEN <<s>>
    ELSE <<SubSeq(s, 1, idx)>> \o split(SubSeq(s, idx + 2, Len(s)), sep)

\* s.trim()
RECURSIVE trimStart(_)
trimStart(s) ==
    IF s # <<>> /\ s[1] \in WhiteSpace THEN trimStart(Tail(s)) ELSE s

RECURSIVE trimEnd(_)
trimEnd(s) ==
    IF s # <<>> /\ s[Len(s)] \in WhiteSpace THEN trimEnd(SubSeq(s, 1, Len(s) - 1)) ELSE s

trim(s) == trimEnd(trimStart(s))

\* decoded.split(',').map(s => s.trim()).filter(Boolean)
rawParts(decoded) ==
    LET parts   == split(decoded, COMMA)
        trimmed == [i \in 1..Len(parts) |-> trim(parts[i])]
    IN  SelectSeq(trimmed, LAMBDA part : part # <<>>)

\* SelectionItem['type']
SelectionTypes ==
    {Str(<<"a", "r", "t", "i", "s", "t">>),
     Str(<<"p", "r", "o", "j", "e", "c", "t">>),
     Str(<<"c", "o", "l", "l", "e", "c", "t", "o", "r">>),
     Str(<<"t", "o", "k", "e", "n">>)}

\* A variant of the test below that takes an empty value.
acceptsAnyValue(type, value) == type \in SelectionTypes

\* if (value && (type === 'artist' || type === 'project' || ...))
accepts(type, value) == value # <<>> /\ type \in SelectionTypes

\* The body of `for (const part of raw)`: the items list after this part.
parsePart(list, part) ==
    LET idx == indexOf(part, COLON) IN
    IF idx <= 0 THEN list
    ELSE LET typeStr == SubSeq(part, 1, idx)
             value   == SubSeq(part, idx + 2, Len(part))
         IN  IF accepts(typeStr, value)
             THEN Append(list, [type |-> typeStr, value |-> value])
             ELSE list

\* for (const part of raw) {...}; return items
RECURSIVE parseParts(_, _)
parseParts(list, raw) ==
    IF raw = <<>> THEN list ELSE parseParts(parsePart(list, Head(raw)), Tail(raw))

\* !param: null, undefined and the empty string
isFalsy(p) == p.kind # "string" \/ p.s = <<>>

\* parseSelection(param)
parseSelection(p) ==
    IF isFalsy(p) THEN <<>> ELSE parseParts(<<>>, rawParts(decodeFully(p.s)))

\* items.map(i => `${i.type}:${i.value}`).join(',')
RECURSIVE serializeSelection(_)
serializeSelection(list) ==
    IF list = <<>> THEN <<>>
    ELSE LET first == list[1].type \o <<COLON>> \o list[1].value IN
         IF Len(list) = 1 THEN first
         ELSE first \o <<COMMA>> \o serializeSelection(Tail(list))

StringParam(s) == [kind |-> "string", s |-> s]

(***************************************************************************)
(* The calls of the codec that are followed: a cart of at most MaxItems    *)
(* items serialized and parsed back, or a raw parameter: null, undefined,  *)
(* or a string put together from at most MaxPieces pieces and then         *)
(* form-encoded at most MaxEncodings times on its way.                     *)
(***************************************************************************)
\* The hexadecimal digit (upper case) of a value below 16.
HexDigit(v) == IF v < 10 THEN 48 + v ELSE 55 + v

\* The application/x-www-form-urlencoded serializer of URLSearchParams, on
\* ASCII strings: space to '+', letters, digits and * - . _ as they are, any
\* other octet as %XX.
RECURSIVE formEncode(_)
formEncode(s) ==
    IF s = <<>> THEN <<>>
    ELSE LET c == Head(s)
             e == IF c = SPACE THEN <<PLUS>>
                  ELSE IF c \in (48..57) \cup (65..90) \cup (97..122) \cup {42, 45, 46, 95}
                  THEN <<c>>
                  ELSE <<PERCENT, HexDigit(c \div 16), HexDigit(c % 16)>>
         IN  e \o formEncode(Tail(s))

RECURSIVE formEncodeTimes(_, _)
formEncodeTimes(k, s) == IF k = 0 THEN s ELSE formEncodeTimes(k - 1, formEncode(s))

Pieces ==
    {Str(<<"a", "r", "t", "i", "s", "t", ":", "a">>),
     Str(<<"t", "o", "k", "e", "n", ":", "7", ",">>),
     Str(<<"n", "f", "t", ":", "%", ",">>),
     Str(<<":", "a", ",">>),
     Str(<<"a", "r", "t", "i", "s", "t", ":", ",">>),
     Str(<<",">>),
     Str(<<"+">>),
     Str(<<"%">>),
     Str(<<"%", "C", "2">>),
     Str(<<"%", "A", "0">>)}

RECURSIVE Concat(_)
Concat(ps) == IF ps = <<>> THEN <<>> ELSE Head(ps) \o Concat(Tail(ps))

\* The strings of at most n pieces.
RawStrings(n) ==
    {Concat(ps) : ps \in UNION {[1..m -> Pieces] : m \in 0..n}}

\* null, undefined, and the strings of at most n pieces encoded at most e times.
RawParams(n, e) ==
    {[kind |-> "null", s |-> <<>>], [kind |-> "undefined", s |-> <<>>]}
    \cup {StringParam(formEncodeTimes(k, s)) : k \in 0..e, s \in RawStrings(n)}

\* The values of the items of a cart; the last two hold a delimiter.
CartValues ==
    {Str(<<"a">>), Str(<<"a", "+", "b">>), Str(<<"%", "4", "1">>), Str(<<"a", " ">>),
     Str(<<"x", ",", "y">>), Str(<<"7", ":", "1">>)}

CartItems == [type : SelectionTypes, value : CartValues]

\* The carts of at most n items.
Carts(n) == UNION {[1..m -> CartItems] : m \in 0..n}

\* serializeSelection(cart), the caller's step before parseSelection
SerializeCall ==
    /\ codecPc = "serialize"
    /\ param' = StringParam(serializeSelection(cart))
    /\ codecPc' = "called"
    /\ UNCHANGED <<cart, prev, rounds, items>>
    /\ UNCHANGED <<limiterVars, resolverVars, ensVars, playerVars, utilVars, gridVars>>

\* parseSelection(param) up to the call of decodeFully
ParseCall ==
    /\ codecPc = "called"
    /\ IF isFalsy(param)
       THEN /\ items' = <<>>
            /\ codecPc' = "returned"
            /\ prev' = prev
       ELSE /\ prev' = param.s
            /\ codecPc' = "decoding"
            /\ items' = items
    /\ UNCHANGED <<cart, param, rounds>>
    /\ UNCHANGED <<limiterVars, resolverVars, ensVars, playerVars, utilVars, gridVars>>

\* One iteration of the loop of decodeFully
DecodeStep ==
    /\ codecPc = "decoding"
    /\ prev' = decodeRound(prev).value
    /\ rounds' = rounds + 1
    /\ codecPc' = IF decodeRound(prev).returns THEN "decoded" ELSE "decoding"
    /\ UNCHANGED <<cart, param, items>>
    /\ UNCHANGED <<limiterVars, resolverVars, ensVars, playerVars, utilVars, gridVars>>

\* parseSelection from the split to its return
ParseParts ==
    /\ codecPc = "decoded"
    /\ items' = parseParts(<<>>, rawParts(prev))
    /\ codecPc' = "returned"
    /\ UNCHANGED <<cart, param, prev, rounds>>
    /\ UNCHANGED <<limiterVars, resolverVars, ensVars, playerVars, utilVars, gridVars>>

\* No call of the codec is under way.
CodecIdle ==
    /\ cart = <<>>
    /\ param = [kind |-> "undefined", s |-> <<>>]
    /\ codecPc = "returned"
    /\ prev = <<>>
    /\ rounds = 0
    /\ items = <<>>

(***************************************************************************)
(* The selection resolvers.  Strings are sequences of code units, as in    *)
(* the codec.                                                              *)
(***************************************************************************)
\* const ZERO_ENGINE_ADDRESS = "0x00000000e75eadc620f4fcefab32f5173749c3a4"
ZERO_ENGINE_ADDRESS ==
    Str(<<"0", "x", "0", "0", "0", "0", "0", "0", "0", "0", "e", "7",
          "5", "e", "a", "d", "c", "6", "2", "0", "f", "4", "f", "c",
          "e", "f", "a", "b", "3", "2", "f", "5", "1", "7", "3", "7",
          "4", "9", "c", "3", "a", "4">>)

\* String.prototype.toLowerCase, on the ASCII letters
toLowerCase(s) ==
    [i \in 1..Len(s) |-> IF s[i] \in 65..90 THEN s[i] + 32 ELSE s[i]]

\* String.prototype.startsWith, endsWith, includes
startsWith(s, p) == Len(p) <= Len(s) /\ SubSeq(s, 1, Len(p)) = p

endsWith(s, p) == Len(p) <= Len(s) /\ SubSeq(s, Len(s) - Len(p) + 1, Len(s)) = p

includes(s, p) == \E k \in 0..(Len(s) - Len(p)) : SubSeq(s, k + 1, k + Len(p)) = p

\* `%${term}%`
wrapIlike(term) == <<PERCENT>> \o term \o <<PERCENT>>

\* name.endsWith('.eth') || name.includes('.eth.')
DotEth == Str(<<".", "e", "t", "h">>)
DotEthDot == Str(<<".", "e", "t", "h", ".">>)
isEnsName(name) == endsWith(name, DotEth) \/ includes(name, DotEthDot)

\* /^0x[a-fA-F0-9]{40}$/.test(address)
isEthAddress(address) ==
    /\ Len(address) = 42
    /\ address[1] = 48 /\ address[2] = 120
    /\ \A i \in 3..42 :
          address[i] \in (48..57) \cup (97..102) \cup (65..70)

\* The value of a field the remote left out, or of a variable not set.
Undefined == <<0 - 1>>

\* typeof x === 'string'
isString(x) == x # Undefined

(***************************************************************************)
(* The remote index, as far as the resolvers can observe it: a table of    *)
(* tokens, a table of users, a table of projects, and the name service.    *)
(* It holds two tokens of one token_id on two contracts, a token on the    *)
(* placeholder contract (in the letter case the index stores), an artist   *)
(* whose name contains another artist's name and a project whose name      *)
(* contains another project's name.                                        *)
(***************************************************************************)
Repeat(ch, n) == [i \in 1..n |-> Code(ch)]

ContractA == Str(<<"0", "x", "c", "a">>)
ContractB == Str(<<"0", "x", "c", "b">>)
PlaceholderContract ==
    Str(<<"0", "x", "0", "0", "0", "0", "0", "0", "0", "0", "E", "7",
          "5", "E", "A", "D", "C", "6", "2", "0", "F", "4", "F", "C",
          "E", "F", "A", "B", "3", "2", "F", "5", "1", "7", "3", "7",
          "4", "9", "C", "3", "A", "4">>)
OwnerA == Str(<<"0", "x">>) \o Repeat("a", 40)
OwnerB == Str(<<"0", "x">>) \o Repeat("b", 40)
DASH == Code("-")
UNDERSCORE == Code("_")

Token(contract, tokenId, project, artist, owner) ==
    [id |-> contract \o <<DASH>> \o tokenId, token_id |-> tokenId,
     contract_address |-> contract, project_name |-> project,
     artist_name |-> artist, owner_address |-> owner,
     live_view_url |-> Undefined]

\* A live_view_url the index publishes for some of its tokens.
LiveUrl == Str(<<"h", "t", "t", "p", "s", ":", "/", "/", "l", "/", "v">>)

Squiggle == Str(<<"S", "q">>)
Squared == Str(<<"S", "q", "2">>)
Ann == Str(<<"A", "n", "n">>)
Anna == Str(<<"A", "n", "n", "a">>)

\* Rows as a damaged index may return them, all of one project, artist and
\* owner: a token listed with its row id and a live view, listed again with
\* no row id, and again with neither row id nor contract address; a row
\* whose token_id is the empty string; a row with no token_id.
Bad == Str(<<"B", "a", "d">>)
Zed == Str(<<"Z", "e", "d">>)
OwnerC == Str(<<"0", "x">>) \o Repeat("c", 40)
MalformedRows ==
    <<[Token(ContractB, Str(<<"5">>), Bad, Zed, OwnerC)
          EXCEPT !.live_view_url = LiveUrl],
      [Token(ContractB, Str(<<"5">>), Bad, Zed, OwnerC) EXCEPT !.id = Undefined],
      [Token(ContractB, Str(<<"5">>), Bad, Zed, OwnerC)
          EXCEPT !.id = Undefined, !.contract_address = Undefined],
      Token(ContractB, <<>>, Bad, Zed, OwnerC),
      [Token(ContractB, Str(<<"7">>), Bad, Zed, OwnerC)
          EXCEPT !.token_id = Undefined]>>

\* tokens_metadata
TokensMetadata ==
    <<Token(ContractA, Str(<<"1">>), Squiggle, Ann, OwnerA),
      [Token(ContractA, Str(<<"2">>), Squiggle, Ann, OwnerA)
          EXCEPT !.live_view_url = LiveUrl],
      Token(ContractB, Str(<<"1">>), Squared, Anna, OwnerB),
      [Token(PlaceholderContract, Str(<<"3">>), Squared, Anna, OwnerB)
          EXCEPT !.live_view_url = LiveUrl],
      Token(ContractA, Str(<<"4">>), Squiggle, Ann, OwnerB)>>
        \o MalformedRows

\* users
Users ==
    <<[public_address |-> OwnerA, display_name |-> Ann],
      [public_address |-> OwnerB, display_name |-> Str(<<"B", "o", "b">>)]>>

\* A row of projects_metadata
Project(name, artist, invocations) ==
    [name |-> name, artist_name |-> artist, invocations |-> invocations,
     contract_address |-> ContractA, project_id |-> Str(<<"0">>)]

\* invocations counts tokens and is never negative; a field of that name
\* that is missing or not a number is held as NotNumber.
NotNumber == 0 - 1

\* typeof x === 'number'
isNumber(x) == x # NotNumber

\* projects_metadata.  The projects of Zed are rows as a damaged index may
\* return them: one with no name, one with an empty name, one whose
\* invocations are not a number, one with no invocations and no contract
\* address, and one that is sound.
Zq == Str(<<"Z", "q">>)
ProjectsMetadata ==
    <<Project(Squiggle, Ann, 3),
      Project(Squared, Anna, 2),
      Project(Undefined, Zed, 4),
      Project(<<>>, Zed, 4),
      Project(Str(<<"Z", "1">>), Zed, NotNumber),
      [Project(Str(<<"Z", "0">>), Zed, 0) EXCEPT !.contract_address = Undefined],
      Project(Zq, Zed, 2)>>

\* The names the name service resolves, and their addresses.
AnnEth == Str(<<"a", "n", "n", ".", "e", "t", "h">>)
EnsRegistry == <<[name |-> AnnEth, address |-> OwnerA]>>

\* LIKE of the index: % stands for any run of characters, _ for any one.
RECURSIVE Like(_, _)
Like(p, s) ==
    IF p = <<>> THEN s = <<>>
    ELSE IF Head(p) = PERCENT
    THEN Like(Tail(p), s) \/ (s # <<>> /\ Like(p, Tail(s)))
    ELSE /\ s # <<>>
         /\ Head(p) = UNDERSCORE \/ Head(p) = Head(s)
         /\ Like(Tail(p), Tail(s))

\* A comparison of a where clause: { _eq }, { _ilike }, { _in }
Compare(op, operand, field) ==
    IF op = "_eq" THEN field = operand[1]
    ELSE IF op = "_ilike" THEN Like(toLowerCase(operand[1]), toLowerCase(field))
    ELSE \E k \in 1..Len(operand) : operand[k] = field

\* Strings compared as order_by compares them.
RECURSIVE Less(_, _)
Less(a, b) ==
    IF b = <<>> THEN FALSE
    ELSE IF a = <<>> THEN TRUE
    ELSE IF Head(a) # Head(b) THEN Head(a) < Head(b)
    ELSE Less(Tail(a), Tail(b))

\* order_by: { field: asc }; rows of one key keep the order of the table.
RECURSIVE Insert(_, _, _)
Insert(sorted, row, field) ==
    IF sorted = <<>> THEN <<row>>
    ELSE IF Less(row[field], Head(sorted)[field]) THEN <<row>> \o sorted
    ELSE <<Head(sorted)>> \o Insert(Tail(sorted), row, field)

RECURSIVE OrderBy(_, _)
OrderBy(rows, field) ==
    IF rows = <<>> THEN <<>>
    ELSE Insert(OrderBy(SubSeq(rows, 1, Len(rows) - 1), field), rows[Len(rows)], field)

NoLimit == 0 - 1

\* The query and variables of one graphqlRequest call.
Query(name, table, field, op, operand, orderBy, limit, offset) ==
    [name |-> name, table |-> table, field |-> field, op |-> op,
     operand |-> operand, orderBy |-> orderBy, limit |-> limit, offset |-> offset]

NoQuery == Query("none", "none", "none", "none", <<>>, "none", NoLimit, 0)

\* Array.prototype.slice(from, to), with from and to in range or beyond the end
slice(seq, from, to) == SubSeq(seq, from + 1, Min(to, Len(seq)))

Table(name) ==
    IF name = "tokens_metadata" THEN TokensMetadata
    ELSE IF name = "users" THEN Users
    ELSE ProjectsMetadata

\* The rows the index answers a query with.
Rows(q) ==
    LET matching == SelectSeq(Table(q.table),
                              LAMBDA row : Compare(q.op, q.operand, row[q.field]))
        ordered == IF q.orderBy = "none" THEN matching ELSE OrderBy(matching, q.orderBy)
        from == Min(q.offset, Len(ordered))
    IN  IF q.limit = NoLimit
        THEN slice(ordered, from, Len(ordered))
        ELSE slice(ordered, from, from + q.limit)

\* What graphqlRequest resolves to: the data of the response, or null.
Null == "null"
Answer(q, failed) == IF failed THEN [data |-> Null, list |-> <<>>, shape |-> "null"]
                     ELSE [data |-> "data", list |-> Rows(q), shape |-> "rows"]

\* A null among the rows of a table: every item?.field of it is undefined,
\* and the field null tells it from a row for the code that reads p.field.
NullRow(table) ==
    [f \in DOMAIN Table(table)[1] \cup {"null"} |->
        IF f = "invocations" THEN NotNumber ELSE Undefined]

isNull(row) == "null" \in DOMAIN row

\* The data of a response that is not what the query asked for: the table's
\* payload is not an array, or the rows come with a null ahead of them.
MalformedAnswer(q, shape) ==
    IF shape = "notArray" THEN [data |-> "data", list |-> <<>>, shape |-> shape]
    ELSE [data |-> "data", list |-> <<NullRow(q.table)>> \o Rows(q), shape |-> shape]

\* The address the name service gives for a name, or Undefined.
ensAddress(name) ==
    IF \E k \in 1..Len(EnsRegistry) : EnsRegistry[k].name = toLowerCase(name)
    THEN (CHOOSE e \in {EnsRegistry[k] : k \in 1..Len(EnsRegistry)} :
              e.name = toLowerCase(name)).address
    ELSE Undefined

(***************************************************************************)
(* The locals of the resolvers and of the pagers.                          *)
(***************************************************************************)
\* A Set or the keys of a Map, in insertion order
Range(seq) == {seq[k] : k \in 1..Len(seq)}

\* Set.prototype.add
add(set, x) == IF x \in Range(set) THEN set ELSE Append(set, x)

\* Map.prototype.set: a key already present keeps its place
set(map, key, value) ==
    IF \E k \in 1..Len(map) : map[k].key = key
    THEN [k \in 1..Len(map) |->
             IF map[k].key = key THEN [key |-> key, value |-> value] ELSE map[k]]
    ELSE Append(map, [key |-> key, value |-> value])

\* Array.from(map.values())
values(map) == [k \in 1..Len(map) |-> map[k].value]

\* Array.from(map.keys())
keys(map) == [k \in 1..Len(map) |-> map[k].key]

\* A SelectionItem
Item(type, value) == [type |-> type, value |-> value]

\* encodeURIComponent on ASCII strings: letters, digits and - _ . ! ~ * ' ( )
\* as they are, any other octet as %XX.
RECURSIVE encodeURIComponent(_)
encodeURIComponent(s) ==
    IF s = <<>> THEN <<>>
    ELSE LET c == Head(s)
             e == IF c \in (48..57) \cup (65..90) \cup (97..122)
                            \cup {45, 95, 46, 33, 126, 42, 39, 40, 41}
                  THEN <<c>>
                  ELSE <<PERCENT, HexDigit(c \div 16), HexDigit(c % 16)>>
         IN  e \o encodeURIComponent(Tail(s))

SLASH == Code("/")

GeneratorHost ==
    Str(<<"h", "t", "t", "p", "s", ":", "/", "/", "g", "e", "n", "e", "r", "a",
          "t", "o", "r", ".", "a", "r", "t", "b", "l", "o", "c", "k", "s", ".",
          "i", "o", "/">>)

\* A variant that composes the empty string.
composeNothing(tokenId, contractAddress) == <<>>

\* contractAddress ? `https://generator.artblocks.io/${ca}/${tokenId}`
\*                 : `https://generator.artblocks.io/${tokenId}`
composeGeneratorUrl(tokenId, contractAddress) ==
    IF contractAddress # Undefined /\ contractAddress # <<>>
    THEN GeneratorHost \o encodeURIComponent(contractAddress) \o <<SLASH>>
             \o encodeURIComponent(tokenId)
    ELSE GeneratorHost \o encodeURIComponent(tokenId)

\* typeof x === 'string' ? x : undefined
stringOrUndefined(x) == IF isString(x) THEN x ELSE Undefined

\* A TokenEntry as the pagers build it, as far as the resolvers read it
TokenEntry(row) ==
    [tokenId |-> row.token_id,
     contractAddress |-> stringOrUndefined(row.contract_address),
     generatorUrl |->
         IF isString(row.live_view_url) /\ row.live_view_url # <<>>
         THEN row.live_view_url
         ELSE composeGeneratorUrl(row.token_id,
                                  stringOrUndefined(row.contract_address))]

\* const bad = typeof ca === 'string' && ca.toLowerCase() === ZERO_ENGINE_ADDRESS
bad(row) ==
    isString(row.contract_address)
        /\ toLowerCase(row.contract_address) = ZERO_ENGINE_ADDRESS

\* A TokenEntry as tokensByIdWithLiveView builds it
TokenEntryById(row) ==
    [tokenId |-> row.token_id,
     contractAddress |-> stringOrUndefined(row.contract_address),
     generatorUrl |->
         IF isString(row.live_view_url) /\ row.live_view_url # <<>> /\ ~bad(row)
         THEN row.live_view_url
         ELSE composeGeneratorUrl(row.token_id,
                                  IF isString(row.contract_address) /\ ~bad(row)
                                  THEN row.contract_address ELSE Undefined)]

\* { tokenId, contractAddress, id }, the rows of the id pagers
IdRow(row) ==
    [tokenId |-> row.token_id, contractAddress |-> row.contract_address,
     id |-> row.id]

\* !r.contractAddress || r.contractAddress.toLowerCase() !== ZERO_ENGINE_ADDRESS
notPlaceholder(r) ==
    \/ r.contractAddress = Undefined
    \/ r.contractAddress = <<>>
    \/ toLowerCase(r.contractAddress) # ZERO_ENGINE_ADDRESS

\* rows.filter(r => ...)
filterPlaceholder(rows) == SelectSeq(rows, notPlaceholder)

NoPager ==
    [fn |-> "none", mode |-> "none", term |-> <<>>, value |-> <<>>, max |-> 0,
     offset |-> 0, pageSize |-> 0, results |-> <<>>, attempts |-> 0,
     addresses |-> <<>>, resolved |-> Undefined, stage |-> "none",
     tokenIds |-> <<>>, i |-> 0, seenIds |-> <<>>]

NoFrame ==
    [pc |-> "idle", i |-> 0, entriesMap |-> <<>>, uniqueIds |-> <<>>,
     uniqueTokens |-> <<>>, totalExpected |-> 0, result |-> <<>>]

\* The resolver and its pager between two awaits.
Locals ==
    [frame |-> frame, pager |-> pager, awaited |-> awaited, trace |-> trace,
     snapshots |-> snapshots]

\* No call of a resolver is under way.
ResolverIdle ==
    /\ call = [fn |-> "none", items |-> <<>>, max |-> 0, initialBatchSize |-> 0,
               mode |-> "none", term |-> <<>>, tokenIds |-> <<>>]
    /\ frame = NoFrame
    /\ pager = NoPager
    /\ awaited = NoQuery
    /\ trace = <<>>
    /\ snapshots = <<>>
    /\ nullAnswers = 0

(***************************************************************************)
(* The states in which the other parts of the program are at rest.         *)
(***************************************************************************)
\* No name has been looked up.
EnsIdle ==
    /\ ensCache = <<>>
    /\ ensPending = <<>>
    /\ lookups = <<>>
    /\ lastEnsCall = <<>>

\* The gallery player is not mounted.
PlayerIdle ==
    /\ mounted = FALSE
    /\ loads = <<>>
    /\ gallery = <<>>
    /\ refs = <<>>

\* truncateEthAddress is not called.
UtilIdle == truncation = <<>>

\* No component uses useGridData.
GridIdle ==
    /\ gridMounted = FALSE
    /\ gridProps = <<>>
    /\ mountedRef = TRUE
    /\ gridLoads = <<>>
    /\ gridState = <<>>

(***************************************************************************)
(* The pagers.  Each runs from one await to the next: it issues a request  *)
(* (issue), and when the answer arrives it continues up to the next        *)
(* request or to its return.                                               *)
(***************************************************************************)
\* The results the call holds: the entries of entriesMap, or the identifiers
\* of uniqueIds and uniqueTokens and the rows of the pager under way.
held(m) ==
    IF call.fn = "resolveSelectionToTokenEntries" THEN Len(m.frame.entriesMap)
    ELSE Len(m.frame.uniqueIds) + Len(m.frame.uniqueTokens) + Len(m.pager.results)

\* const data = await graphqlRequest(query, variables); the trace keeps with
\* the request the results held and the snapshots delivered when it is sent.
issue(m, q) ==
    [m EXCEPT !.awaited = q,
              !.trace = Append(@, [item |-> m.frame.i, fn |-> m.pager.fn,
                                   query |-> q, held |-> held(m),
                                   delivered |-> Len(m.snapshots),
                                   answered |-> FALSE, null |-> FALSE,
                                   rows |-> 0, shape |-> "none"])]

ChromieSquiggle ==
    Str(<<"C", "h", "r", "o", "m", "i", "e", " ",
          "S", "q", "u", "i", "g", "g", "l", "e">>)

\* const useExactMatch = mode === 'project' && (term === 'Chromie Squiggle' || !term.includes('%'))
useExactMatch(mode, term) ==
    mode = "project" /\ (term = ChromieSquiggle \/ ~includes(term, <<PERCENT>>))

\* const isAddr = mode === 'collector' && isEthAddress(term)
isAddr(mode, term) == mode = "collector" /\ isEthAddress(term)

\* The query and variables of the next page of each pager
pageQuery(p) ==
    IF p.fn = "searchTokensByArtistExact"
    THEN Query("SearchByArtistExact", "tokens_metadata", "artist_name", "_eq",
               <<p.term>>, "id", p.pageSize, p.offset)
    ELSE IF p.fn = "searchTokensByGraphQLAll"
    THEN IF p.mode = "artist"
         THEN Query("SearchByArtist", "tokens_metadata", "artist_name", "_ilike",
                    <<p.value>>, "id", p.pageSize, p.offset)
         ELSE IF p.mode = "project"
         THEN Query("SearchByProject", "tokens_metadata", "project_name", "_ilike",
                    <<p.value>>, "id", p.pageSize, p.offset)
         ELSE IF isAddr(p.mode, p.term)
         THEN Query("SearchByCollectorEq", "tokens_metadata", "owner_address", "_eq",
                    <<p.value>>, "id", p.pageSize, p.offset)
         ELSE Query("SearchByCollectorLike", "tokens_metadata", "owner_address",
                    "_ilike", <<p.value>>, "id", p.pageSize, p.offset)
    ELSE IF p.fn = "searchTokensByCollector"
    THEN IF Len(p.addresses) > 0
         THEN Query("TokensByOwners", "tokens_metadata", "owner_address", "_in",
                    p.addresses, "id", p.pageSize, p.offset)
         ELSE Query("TokensByOwnerFallback", "tokens_metadata", "owner_address",
                    IF isEthAddress(p.term) THEN "_eq" ELSE "_ilike",
                    <<IF isEthAddress(p.term) THEN toLowerCase(p.term)
                                              ELSE wrapIlike(p.term)>>,
                    "id", p.pageSize, p.offset)
    ELSE IF p.mode = "artist"
    THEN Query("TokensByArtist", "tokens_metadata", "artist_name", "_ilike",
               <<p.value>>, "token_id", p.pageSize, p.offset)
    ELSE IF p.mode = "project"
    THEN IF p.fn = "searchTokensWithLiveViewProgressive"
            /\ useExactMatch(p.mode, p.term)
         THEN Query("TokensByProjectExact", "tokens_metadata", "project_name", "_eq",
                    <<p.value>>, "token_id", p.pageSize, p.offset)
         ELSE Query(IF p.fn = "searchTokensWithLiveViewProgressive"
                    THEN "TokensByProjectFuzzy" ELSE "TokensByProject",
                    "tokens_metadata", "project_name", "_ilike",
                    <<p.value>>, "token_id", p.pageSize, p.offset)
    ELSE Query("TokensByCollector", "tokens_metadata", "owner_address", "_ilike",
               <<p.value>>, "token_id", p.pageSize, p.offset)

\* typeof tid === 'string': the rows a pager keeps
withTokenId(list) == SelectSeq(list, LAMBDA row : isString(row.token_id))

\* The rows of a page as the pager pushes them
pageRows(p, list) ==
    IF p.fn \in {"searchTokensWithLiveView", "searchTokensWithLiveViewProgressive"}
    THEN [k \in 1..Len(withTokenId(list)) |-> TokenEntry(withTokenId(list)[k])]
    ELSE [k \in 1..Len(withTokenId(list)) |-> IdRow(withTokenId(list)[k])]

\* tokensByIdWithLiveView: the ids of the chunk at i, by their form
chunk(p) == slice(p.tokenIds, p.i, p.i + ChunkSize)

\* A variant that takes no identifier for a composite one.
neverUniqueId(id) == FALSE

ZeroX == Str(<<"0", "x">>)

\* id.includes('-') && id.startsWith('0x')
isUniqueId(id) == includes(id, <<DASH>>) /\ startsWith(id, ZeroX)

uniqueIdsOf(p) == SelectSeq(chunk(p), isUniqueId)

plainTokenIdsOf(p) == SelectSeq(chunk(p), LAMBDA id : ~isUniqueId(id))

\* const effectiveId = typeof uniqueId === 'string' ? uniqueId
\*    : (typeof ca === 'string' && typeof tid === 'string' ? `${ca}-${tid}` : tid)
effectiveId(row) ==
    IF isString(row.id) THEN row.id
    ELSE IF isString(row.contract_address) /\ isString(row.token_id)
    THEN row.contract_address \o <<DASH>> \o row.token_id
    ELSE row.token_id

\* A variant of the merge that pushes every row, seen or not.
RECURSIVE pushAll(_, _, _)
pushAll(p, list, plain) ==
    IF list = <<>> THEN p
    ELSE pushAll(IF isString(Head(list).token_id)
                 THEN [p EXCEPT !.results = Append(@, TokenEntryById(Head(list)))]
                 ELSE p,
                 Tail(list), plain)

\* for (const itemRaw of list) { ... seenIds.add(id); entries.push(...) }
RECURSIVE pushUnseen(_, _, _)
pushUnseen(p, list, plain) ==
    IF list = <<>> THEN p
    ELSE LET row == Head(list)
             id == IF plain THEN effectiveId(row) ELSE row.id
         IN  IF isString(row.token_id) /\ isString(id) /\ id \notin Range(p.seenIds)
             THEN pushUnseen([p EXCEPT !.seenIds = Append(@, id),
                                       !.results = Append(@, TokenEntryById(row))],
                             Tail(list), plain)
             ELSE pushUnseen(p, Tail(list), plain)

(***************************************************************************)
(* The two resolvers.  The operators below are the continuations of their  *)
(* code and of the pagers' code; m holds the locals.                       *)
(***************************************************************************)
\* (entriesMap.size / Math.min(totalExpected, max)) * 100, capped by
\* Math.min(_, 100): a quotient num/den, or NaN when 0 is divided by 0.
\* A positive number divided by 0 is Infinity, which the cap turns into 100.
percentage(size, totalExpected, max) ==
    LET total == Min(totalExpected, max)
    IN  IF totalExpected > 0
        THEN IF total = 0
             THEN IF size = 0 THEN [nan |-> TRUE, num |-> 0, den |-> 1]
                              ELSE [nan |-> FALSE, num |-> 100, den |-> 1]
             ELSE IF size >= total THEN [nan |-> FALSE, num |-> 100, den |-> 1]
                                   ELSE [nan |-> FALSE, num |-> size * 100, den |-> total]
        ELSE [nan |-> FALSE, num |-> 0, den |-> 1]

\* A variant of the snapshot whose total is not capped by max.
updateProgressUncapped(m) ==
    [m EXCEPT !.snapshots =
        Append(@, [loaded |-> Len(m.frame.entriesMap),
                   total |-> m.frame.totalExpected,
                   percentage |-> percentage(Len(m.frame.entriesMap),
                                             m.frame.totalExpected, call.max),
                   entries |-> values(m.frame.entriesMap),
                   keys |-> keys(m.frame.entriesMap)])]

\* const updateProgress = () => { if (onProgress) onProgress({...}) }
\* The snapshot is kept with the keys entriesMap had when it was taken.
updateProgress(m) ==
    [m EXCEPT !.snapshots =
        Append(@, [loaded |-> Len(m.frame.entriesMap),
                   total |-> Min(m.frame.totalExpected, call.max),
                   percentage |-> percentage(Len(m.frame.entriesMap),
                                             m.frame.totalExpected, call.max),
                   entries |-> values(m.frame.entriesMap),
                   keys |-> keys(m.frame.entriesMap)])]

\* A variant of the merge that keeps the entries of the last batch only.
onlyBatch(map, entries) ==
    [k \in 1..Len(entries) |-> [key |-> entries[k].tokenId, value |-> entries[k]]]

\* for (const entry of entries) if (...) entriesMap.set(entry.tokenId, entry)
RECURSIVE setEntries(_, _)
setEntries(map, entries) ==
    IF entries = <<>> THEN map
    ELSE setEntries(IF notPlaceholder(Head(entries))
                    THEN set(map, Head(entries).tokenId, Head(entries))
                    ELSE map,
                    Tail(entries))

\* The onBatch callback the entries resolver gives to the progressive pager
onBatch(m, batch) ==
    IF call.fn = "resolveSelectionToTokenEntries"
    THEN updateProgress([m EXCEPT !.frame.entriesMap = setEntries(@, batch)])
    ELSE m

\* rows.forEach(r => { if (r.id) uniqueIds.add(r.id) else uniqueTokens.add(r.tokenId) })
RECURSIVE addRows(_, _)
addRows(f, rows) ==
    IF rows = <<>> THEN f
    ELSE addRows(IF isString(Head(rows).id) /\ Head(rows).id # <<>>
                 THEN [f EXCEPT !.uniqueIds = add(@, Head(rows).id)]
                 ELSE [f EXCEPT !.uniqueTokens = add(@, Head(rows).tokenId)],
                 Tail(rows))

RECURSIVE pagerLoop(_), pagerReturn(_, _), loopItems(_, _), afterItem(_),
          startPager(_, _, _, _, _), startById(_, _, _), byIdLoop(_), byIdPlain(_)

\* return ...: the resolver's promise is fulfilled
returns(m, result) ==
    [m EXCEPT !.frame.pc = "returned", !.frame.result = result,
              !.pager = NoPager, !.awaited = NoQuery]

\* if (entriesMap.size >= max) break
\* if (uniqueIds.size + uniqueTokens.size >= max) break
afterItem(m) ==
    IF call.fn = "resolveSelectionToTokenEntries"
    THEN IF Len(m.frame.entriesMap) >= call.max
         THEN returns(m, slice(values(m.frame.entriesMap), 0, call.max))
         ELSE loopItems(m, m.frame.i + 1)
    ELSE IF Len(m.frame.uniqueIds) + Len(m.frame.uniqueTokens) >= call.max
         THEN returns(m, m.frame.uniqueIds \o m.frame.uniqueTokens)
         ELSE loopItems(m, m.frame.i + 1)

\* for (const it of items) { ... }, from the item at index i, and the return
loopItems(m, i) ==
    LET at == [m EXCEPT !.frame.i = i, !.frame.pc = "resolve", !.pager = NoPager]
        it == call.items[i]
    IN  IF i > Len(call.items)
        THEN IF call.fn = "resolveSelectionToTokenEntries"
             THEN returns(m, slice(values(m.frame.entriesMap), 0, call.max))
             ELSE returns(m, m.frame.uniqueIds \o m.frame.uniqueTokens)
        ELSE IF call.fn = "resolveSelectionToTokenEntries"
        THEN IF it.type = "token"
             THEN startById(at, <<it.value>>, 1)
             ELSE startPager(at, "searchTokensWithLiveViewProgressive", it.type,
                             it.value, call.max - Len(m.frame.entriesMap))
        ELSE IF it.type = "token"
        THEN afterItem([at EXCEPT !.frame.uniqueTokens = add(@, it.value)])
        ELSE IF it.type = "artist"
        THEN startPager(at, "searchTokensByArtistExact", it.type, it.value,
                        call.max - Len(m.frame.uniqueIds))
        ELSE IF it.type = "project"
        THEN startPager(at, "searchTokensByGraphQLAll", it.type, it.value,
                        call.max - Len(m.frame.uniqueIds))
        ELSE startPager(at, "searchTokensByCollector", it.type, it.value,
                        call.max - Len(m.frame.uniqueIds))

\* The code after `await pager(...)`: what the caller does with the rows
pagerReturn(m, rows) ==
    IF call.fn = "resolveSelectionToTokenEntries"
    THEN IF m.pager.fn = "tokensByIdWithLiveView"
         THEN IF rows # <<>>
              THEN afterItem(updateProgress(
                       [m EXCEPT !.frame.entriesMap =
                                     set(@, call.items[m.frame.i].value, rows[1])]))
              ELSE afterItem(m)
         ELSE afterItem([m EXCEPT !.frame.entriesMap = setEntries(@, rows)])
    ELSE IF call.fn = "resolveSelectionTokenIds"
    THEN IF m.pager.fn = "searchTokensByArtistExact" /\ Len(rows) = 0
         THEN startPager(m, "searchTokensByGraphQLAll", "artist", m.pager.term,
                         call.max - Len(m.frame.uniqueIds))
         ELSE afterItem([m EXCEPT !.frame = addRows(@, filterPlaceholder(rows))])
    ELSE returns(m, rows)

\* while (results.length < max) { ... await graphqlRequest } return results.slice(0, max)
pagerLoop(m) ==
    IF Len(m.pager.results) < m.pager.max
    THEN issue(m, pageQuery(m.pager))
    ELSE pagerReturn(m, slice(m.pager.results, 0, m.pager.max))

\* tokensByIdWithLiveView: the plain ids of the chunk, then the next chunk
byIdPlain(m) ==
    IF Len(plainTokenIdsOf(m.pager)) > 0
    THEN issue([m EXCEPT !.pager.stage = "plain"],
               Query("TokensByIds", "tokens_metadata", "token_id", "_in",
                     plainTokenIdsOf(m.pager), "token_id", NoLimit, 0))
    ELSE byIdLoop([m EXCEPT !.pager.i = @ + ChunkSize])

\* for (let i = 0; i < tokenIds.length && entries.length < max; i += chunkSize)
byIdLoop(m) ==
    IF m.pager.i < Len(m.pager.tokenIds) /\ Len(m.pager.results) < m.pager.max
    THEN IF Len(uniqueIdsOf(m.pager)) > 0
         THEN issue([m EXCEPT !.pager.stage = "unique"],
                    Query("TokensByUniqueIds", "tokens_metadata", "id", "_in",
                          uniqueIdsOf(m.pager), "id", NoLimit, 0))
         ELSE byIdPlain(m)
    ELSE pagerReturn(m, slice(m.pager.results, 0, m.pager.max))

\* tokensByIdWithLiveView(tokenIds, max) is called: its code up to the first
\* await, or to its return
startById(m, tokenIds, max) ==
    byIdLoop([m EXCEPT !.pager =
                 [NoPager EXCEPT !.fn = "tokensByIdWithLiveView", !.mode = "token",
                                 !.max = max, !.stage = "page",
                                 !.tokenIds = tokenIds]])

\* A pager is called: its code up to the first await
startPager(m, fn, mode, term, max) ==
    LET p == [NoPager EXCEPT
                 !.fn = fn, !.mode = mode, !.term = term, !.max = max,
                 !.stage = "page",
                 !.value = IF fn = "searchTokensByGraphQLAll"
                           THEN IF isAddr(mode, term) THEN toLowerCase(term)
                                                      ELSE wrapIlike(term)
                           ELSE IF fn = "searchTokensWithLiveViewProgressive"
                                   /\ useExactMatch(mode, term)
                           THEN term
                           ELSE wrapIlike(term),
                 !.pageSize = IF fn = "searchTokensWithLiveViewProgressive"
                              THEN Min(call.initialBatchSize, PageSize)
                              ELSE PageSize]
        n == [m EXCEPT !.pager = p]
    IN  IF fn = "searchTokensByCollector"
        THEN \* fetchUserAddressesByTerm(term)
             IF isEnsName(term)
             THEN [n EXCEPT !.pager.stage = "ens"]
             ELSE IF isEthAddress(term)
             THEN issue([n EXCEPT !.pager.stage = "users"],
                        Query("UsersByAddr", "users", "public_address", "_eq",
                              <<toLowerCase(term)>>, "none", NoLimit, 0))
             ELSE issue([n EXCEPT !.pager.stage = "users"],
                        Query("UsersByName", "users", "display_name", "_ilike",
                              <<wrapIlike(term)>>, "none", NoLimit, 0))
        ELSE pagerLoop(n)

\* const resolvedAddress = await resolveEnsToAddress(term)
onEnsResolved(m, address) ==
    IF address # Undefined
    THEN issue([m EXCEPT !.pager.stage = "users", !.pager.resolved = address],
               Query("UsersByAddr", "users", "public_address", "_eq",
                     <<address>>, "none", NoLimit, 0))
    ELSE pagerLoop([m EXCEPT !.pager.stage = "page", !.pager.addresses = <<>>])

\* fetchUserAddressesByTerm after its users query
onUsers(m, answer) ==
    LET list == SelectSeq(answer.list, LAMBDA u : isString(u.public_address))
        addrs == [k \in 1..Len(list) |-> toLowerCase(list[k].public_address)]
        resolved == m.pager.resolved
        addresses == IF resolved # Undefined
                     THEN IF answer.data = Null \/ Len(addrs) = 0
                          THEN <<resolved>> ELSE addrs
                     ELSE IF answer.data = Null THEN <<>> ELSE addrs
    IN  pagerLoop([m EXCEPT !.pager.stage = "page", !.pager.addresses = addresses])

\* A variant of the test of the last page that never finds a page short.
lastPageNever(p, list) == FALSE

\* if (list.length < pageSize) break
lastPage(p, list) == Len(list) < p.pageSize

\* A variant of the step to the next page that moves on by a full page,
\* whatever the size of the page just asked for.
nextOffsetByFullPage(p) == p.offset + PageSize

\* A variant of the step to the next page that stays at the same offset.
sameOffset(p) == p.offset

\* offset += pageSize
nextOffset(p) == p.offset + p.pageSize

\* A pager after the answer to a page request
onPage(m, answer) ==
    LET p == m.pager
        list == answer.list
        batch == pageRows(p, list)
        pushed == [m EXCEPT !.pager.results = @ \o batch, !.pager.attempts = 0]
        told == IF p.fn = "searchTokensWithLiveViewProgressive"
                THEN onBatch(pushed, batch) ELSE pushed
        done(n) == pagerReturn(n, slice(n.pager.results, 0, n.pager.max))
    IN  IF answer.data = Null
        THEN IF p.fn = "searchTokensByGraphQLAll" /\ p.attempts + 1 < MAX_PAGE_ATTEMPTS
             THEN issue([m EXCEPT !.pager.attempts = @ + 1], pageQuery(p))
             ELSE done(m)
        ELSE IF Len(list) = 0 THEN done(m)
        ELSE IF lastPage(p, list) THEN done(told)
        ELSE pagerLoop([told EXCEPT
                           !.pager.offset = nextOffset(p),
                           !.pager.pageSize =
                               IF p.fn = "searchTokensWithLiveViewProgressive"
                               THEN PageSize ELSE @])

\* tokensByIdWithLiveView after the answer to one of its two queries
onById(m, answer) ==
    LET n == [m EXCEPT !.pager = pushUnseen(@, answer.list, m.pager.stage = "plain")]
    IN  IF m.pager.stage = "unique"
        THEN byIdPlain(n)
        ELSE byIdLoop([n EXCEPT !.pager.i = @ + ChunkSize])

\* resolveSelectionToTokenEntries: the loop that adds up totalExpected, from
\* the item at index i; then the first updateProgress() and the main loop
RECURSIVE estimateFrom(_, _)
estimateFrom(m, i) ==
    LET it == call.items[i]
        at == [m EXCEPT !.frame.i = i, !.frame.pc = "estimate"]
    IN  IF i > Len(call.items)
        THEN loopItems(updateProgress(m), 1)
        ELSE IF it.type = "token"
        THEN estimateFrom([at EXCEPT !.frame.totalExpected = @ + 1], i + 1)
        ELSE IF it.type = "project"
        THEN issue(at, Query("ProjectInvocations", "projects_metadata", "name", "_eq",
                             <<it.value>>, "none", 1, 0))
        ELSE IF it.type = "artist"
        THEN estimateFrom([at EXCEPT !.frame.totalExpected = @ + ARTIST_ESTIMATE], i + 1)
        ELSE estimateFrom([at EXCEPT !.frame.totalExpected = @ + COLLECTOR_ESTIMATE], i + 1)

\* A variant that adds the fallback estimate whatever the index answered.
onInvocationsEstimate(m, answer) ==
    estimateFrom([m EXCEPT !.frame.totalExpected = @ + PROJECT_ESTIMATE],
                 m.frame.i + 1)

\* totalExpected += typeof invocations === 'number' ? invocations : 1000
onInvocations(m, answer) ==
    LET invocations == IF Len(answer.list) > 0 /\ isNumber(answer.list[1].invocations)
                       THEN answer.list[1].invocations
                       ELSE PROJECT_ESTIMATE
    IN  estimateFrom([m EXCEPT !.frame.totalExpected = @ + invocations],
                     m.frame.i + 1)

\* getArtistProjectsWithInvocations, up to its await
startArtistProjects(m) ==
    issue([m EXCEPT !.frame.pc = "resolve",
                    !.pager.fn = "getArtistProjectsWithInvocations",
                    !.pager.term = call.term],
          Query("ArtistProjects", "projects_metadata", "artist_name", "_eq",
                <<call.term>>, "none", NoLimit, 0))

\* p => ({ name: typeof p.name === 'string' ? p.name : '', ... })
ArtistProject(p) ==
    [name |-> IF isString(p.name) THEN p.name ELSE <<>>,
     invocations |-> IF isNumber(p.invocations) THEN p.invocations ELSE 0,
     contractAddress |-> stringOrUndefined(p.contract_address),
     projectId |-> stringOrUndefined(p.project_id)]

\* An exception leaves the async function: its promise is rejected
throws(m) ==
    [m EXCEPT !.frame.pc = "threw", !.pager = NoPager, !.awaited = NoQuery]

\* if (!Array.isArray(projects)) return []
\* return projects.map(p => ...).filter(p => p.name && p.invocations > 0)
\* Reading p.name of a null p is a TypeError.
onArtistProjects(m, answer) ==
    LET mapped == [k \in 1..Len(answer.list) |-> ArtistProject(answer.list[k])]
    IN  IF answer.data = Null \/ answer.shape = "notArray" THEN returns(m, <<>>)
        ELSE IF \E k \in 1..Len(answer.list) : isNull(answer.list[k]) THEN throws(m)
        ELSE returns(m, SelectSeq(mapped,
                                  LAMBDA p : p.name # <<>> /\ p.invocations > 0))

\* The call, up to its first await
start(m) ==
    IF call.fn = "resolveSelectionToTokenEntries" THEN estimateFrom(m, 1)
    ELSE IF call.fn = "getArtistProjectsWithInvocations" THEN startArtistProjects(m)
    ELSE IF call.fn = "resolveSelectionTokenIds" THEN loopItems(m, 1)
    ELSE IF call.fn = "tokensByIdWithLiveView"
    THEN startById([m EXCEPT !.frame.pc = "resolve"], call.tokenIds, call.max)
    ELSE startPager([m EXCEPT !.frame.pc = "resolve"], call.fn, call.mode,
                    call.term, call.max)

\* The call, from the answer it awaits to its next await
resume(m, answer) ==
    LET k == Len(m.trace)
        n == [m EXCEPT !.awaited = NoQuery,
                       !.trace[k].answered = TRUE,
                       !.trace[k].null = (answer.data = Null),
                       !.trace[k].rows = Len(answer.list),
                       !.trace[k].shape = answer.shape]
    IN  IF m.frame.pc = "estimate" THEN onInvocations(n, answer)
        ELSE IF m.pager.fn = "getArtistProjectsWithInvocations"
        THEN onArtistProjects(n, answer)
        ELSE IF m.pager.stage = "users" THEN onUsers(n, answer)
        ELSE IF m.pager.fn = "tokensByIdWithLiveView" THEN onById(n, answer)
        ELSE onPage(n, answer)

(***************************************************************************)
(* The calls followed, and the steps of a call.                            *)
(***************************************************************************)
\* The items a selection is made of.
ItemPool ==
    {Item("artist", Ann), Item("artist", toLowerCase(Ann)),
     Item("project", Squiggle), Item("project", Bad), Item("collector", AnnEth),
     Item("token", Str(<<"1">>)), Item("token", ContractA \o Str(<<"-", "1">>)),
     Item("token", Str(<<"3">>))}

\* The selections of at most n items.
Selections(n) == UNION {[1..k -> ItemPool] : k \in 0..n}

\* The terms a pager is called with directly.
PagerTerms ==
    {[mode |-> "artist", term |-> Ann], [mode |-> "project", term |-> Squiggle],
     [mode |-> "project", term |-> Bad],
     [mode |-> "collector", term |-> AnnEth], [mode |-> "collector", term |-> OwnerB],
     [mode |-> "collector", term |-> Str(<<"B", "o", "b">>)]}

\* A collector term that is no ENS name, no address and no display name of
\* the users table, and that is part of an owner address of the index.
HexFragment == Str(<<"b", "b">>)

\* The identifiers tokensByIdWithLiveView is called with directly: plain
\* and composite ones, of tokens the index holds and of none.
IdPool ==
    {Str(<<"1">>), ContractA \o Str(<<"-", "1">>), Str(<<"5">>),
     ContractB \o Str(<<"-", "5">>), Str(<<"9">>)}

\* The lists of at most n identifiers.
IdLists(n) == UNION {[1..k -> IdPool] : k \in 0..n}

Pagers ==
    {"searchTokensByGraphQLAll", "searchTokensByArtistExact", "searchTokensByCollector",
     "searchTokensWithLiveView", "searchTokensWithLiveViewProgressive"}

\* The modes a pager takes.
takes(fn, mode) ==
    IF fn = "searchTokensByArtistExact" THEN mode = "artist"
    ELSE IF fn = "searchTokensByCollector" THEN mode = "collector"
    ELSE TRUE

\* initialBatchSize = 500, initialBatchSize = 100: the defaults
DEFAULT_BATCH_SIZE == 500
DEFAULT_PAGER_BATCH_SIZE == 100

\* max = 100000, max = 1000000: the defaults
DEFAULT_MAX == 100000
DEFAULT_IDS_MAX == 1000000

\* The calls with selections of at most n items and max up to top or left
\* to its default.
Calls(n, top) ==
    {[fn |-> "resolveSelectionToTokenEntries", items |-> s, max |-> x,
      initialBatchSize |-> b, mode |-> "none", term |-> <<>>, tokenIds |-> <<>>] :
         s \in Selections(n), x \in 0..top \cup {DEFAULT_MAX},
         b \in {1, DEFAULT_BATCH_SIZE}}
    \cup
    {[fn |-> "resolveSelectionTokenIds", items |-> s, max |-> x,
      initialBatchSize |-> 0, mode |-> "none", term |-> <<>>, tokenIds |-> <<>>] :
         s \in Selections(n), x \in 0..top \cup {DEFAULT_IDS_MAX}}
    \cup
    {c \in {[fn |-> fn, items |-> <<>>, max |-> x,
              initialBatchSize |-> DEFAULT_PAGER_BATCH_SIZE,
              mode |-> t.mode, term |-> t.term, tokenIds |-> <<>>] :
                 fn \in Pagers, x \in 0..top \cup {DEFAULT_MAX}, t \in PagerTerms} :
        takes(c.fn, c.mode)}
    \cup
    {[fn |-> "searchTokensByCollector", items |-> <<>>, max |-> x,
      initialBatchSize |-> DEFAULT_PAGER_BATCH_SIZE,
      mode |-> "collector", term |-> HexFragment, tokenIds |-> <<>>] :
         x \in 0..top \cup {DEFAULT_MAX}}
    \cup
    {[fn |-> "tokensByIdWithLiveView", items |-> <<>>, max |-> x,
      initialBatchSize |-> 0, mode |-> "none", term |-> <<>>, tokenIds |-> ids] :
         ids \in IdLists(MaxIds), x \in 0..top \cup {DEFAULT_MAX}}
    \cup
    {[fn |-> "getArtistProjectsWithInvocations", items |-> <<>>, max |-> 0,
      initialBatchSize |-> 0, mode |-> "artist", term |-> t, tokenIds |-> <<>>] :
         t \in {Ann, Zed, Bad}}

ResolverInstall(m) ==
    /\ frame' = m.frame
    /\ pager' = m.pager
    /\ awaited' = m.awaited
    /\ trace' = m.trace
    /\ snapshots' = m.snapshots
    /\ UNCHANGED <<call, limiterVars, codecVars, ensVars, playerVars, utilVars, gridVars>>

\* The call is made: it runs to its first await, or returns at once.
CallStart ==
    /\ frame.pc = "called"
    /\ ResolverInstall(start(Locals))
    /\ UNCHANGED nullAnswers

\* graphqlRequest resolves, with the data of the response or with null.
AnswerArrives(failed) ==
    /\ awaited # NoQuery
    /\ nullAnswers' = IF failed THEN nullAnswers + 1 ELSE nullAnswers
    /\ ResolverInstall(resume(Locals, Answer(awaited, failed)))

\* graphqlRequest resolves with data that are not what the query asked for.
\* A call is followed through one such answer and no null one.
MalformedAnswerArrives(shape) ==
    /\ awaited # NoQuery
    /\ nullAnswers' = MaxNullAnswers
    /\ ResolverInstall(resume(Locals, MalformedAnswer(awaited, shape)))

\* resolveEnsToAddress resolves.
EnsSettles ==
    /\ pager.stage = "ens"
    /\ ResolverInstall(onEnsResolved(Locals, ensAddress(pager.term)))
    /\ UNCHANGED nullAnswers

ResolverInit ==
    /\ LimiterInit
    /\ CodecIdle
    /\ EnsIdle
    /\ PlayerIdle
    /\ UtilIdle
    /\ GridIdle
    /\ call \in Calls(MaxSelection, MaxMax)
    /\ frame = [NoFrame EXCEPT !.pc = "called"]
    /\ pager = NoPager
    /\ awaited = NoQuery
    /\ trace = <<>>
    /\ snapshots = <<>>
    /\ nullAnswers = 0

ResolverNext ==
    \/ CallStart
    \/ \E failed \in BOOLEAN :
          /\ failed => nullAnswers < MaxNullAnswers
          /\ AnswerArrives(failed)
    \/ \E shape \in {"notArray", "nullRow"} :
          /\ nullAnswers = 0
          /\ MalformedAnswerArrives(shape)
    \/ EnsSettles

ResolverSpec == ResolverInit /\ [][ResolverNext]_vars

(***************************************************************************)
(* Part 4: the name-resolution cache.  resolveEnsToAddress and             *)
(* resolveAddressToEns share ensCache and ensPending under keys with       *)
(* different prefixes.  fetch returns a promise (it does not throw), so a  *)
(* lookup runs in three steps: up to `await fetch`, up to `await           *)
(* response.json()`, and to its end.  Instants are relative to the current *)
(* one, as in part 1.                                                      *)
(***************************************************************************)
\* const ENS_CACHE_TTL = 24 * 60 * 60 * 1000
ENS_CACHE_TTL == 86400000

\* The arguments of the calls followed: a name in three spellings and an
\* address in two.
AnnEthCapital == Str(<<"A", "n", "n", ".", "e", "t", "h">>)
AnnEthUpper == Str(<<"A", "N", "N", ".", "E", "T", "H">>)
OwnerAUpper == Str(<<"0", "x">>) \o Repeat("A", 40)

EnsArgs ==
    {[fn |-> "resolveEnsToAddress", arg |-> a] :
        a \in {AnnEth, AnnEthCapital, AnnEthUpper}}
    \cup {[fn |-> "resolveAddressToEns", arg |-> a] : a \in {OwnerA, OwnerAUpper}}

\* The argument is of the kind the function resolves.
ensValid(fn, arg) ==
    IF fn = "resolveEnsToAddress" THEN isEnsName(arg) ELSE isEthAddress(arg)

\* const cacheKey = `ens-to-addr:${ensName.toLowerCase()}`
\* const cacheKey = `addr-to-ens:${address.toLowerCase()}`
EnsToAddr == Str(<<"e", "n", "s", "-", "t", "o", "-", "a", "d", "d", "r", ":">>)
AddrToEns == Str(<<"a", "d", "d", "r", "-", "t", "o", "-", "e", "n", "s", ":">>)
ensCacheKey(fn, arg) ==
    (IF fn = "resolveEnsToAddress" THEN EnsToAddr ELSE AddrToEns) \o toLowerCase(arg)

EnsKeys == {ensCacheKey(a.fn, a.arg) : a \in EnsArgs}

\* What the body of the service's response carries.
NoBody == [address |-> Undefined, ens_primary |-> Undefined, ens |-> Undefined]
Bodies(fn, arg) ==
    IF fn = "resolveEnsToAddress"
    THEN {[NoBody EXCEPT !.address = OwnerAUpper],
          [NoBody EXCEPT !.address = OwnerAUpper \o OwnerAUpper], NoBody}
    ELSE {[NoBody EXCEPT !.ens_primary = AnnEth],
          [NoBody EXCEPT !.ens = AnnEthCapital],
          [NoBody EXCEPT !.ens_primary = <<>>, !.ens = AnnEthUpper],
          NoBody}

\* The machine the synchronous code reads and writes.
EnsMachine == [cache |-> ensCache, pending |-> ensPending, lookups |-> lookups]

NoValue == [state |-> "null", value |-> <<>>]
Value(s) == [state |-> "value", value |-> s]
Pending == [state |-> "pending", value |-> <<>>]

\* const cached = ensCache.get(cacheKey); if (cached && !isExpired(cached))
ensCacheHit(key) == ensCache[key].present /\ ~isExpired(ensCache[key])

\* What a call does before it returns its promise: null for an argument of
\* the wrong kind, the cached data, the pending lookup, or a new lookup.
ensCallResult(fn, arg) ==
    LET key == ensCacheKey(fn, arg)
    IN  IF ~ensValid(fn, arg) THEN [kind |-> "invalid", result |-> NoValue, lookup |-> 0]
        ELSE IF ensCacheHit(key)
        THEN [kind |-> "hit", result |-> Value(ensCache[key].data), lookup |-> 0]
        ELSE IF ensPending[key] # 0
        THEN [kind |-> "pending", result |-> Pending, lookup |-> ensPending[key]]
        ELSE [kind |-> "new", result |-> Pending, lookup |-> Len(lookups) + 1]

\* return null ... finally { ensPending.delete(cacheKey) }
ensReturn(m, id, result) ==
    [m EXCEPT !.lookups[id].pc = "done", !.lookups[id].result = result,
              !.lookups[id].doneAt = now,
              !.pending[m.lookups[id].key] = 0]

\* ensCache.set(cacheKey, { data, timestamp: Date.now(), ttl: ENS_CACHE_TTL })
ensCacheSet(m, id, data) ==
    [m EXCEPT !.cache[m.lookups[id].key] =
        [present |-> TRUE, data |-> data, timestamp |-> now, ttl |-> ENS_CACHE_TTL]]

\* The lookup after `await response.json()`
onEnsBody(m, id, body) ==
    IF m.lookups[id].fn = "resolveEnsToAddress"
    THEN IF isString(body.address) /\ isEthAddress(body.address)
         THEN ensReturn(ensCacheSet(m, id, toLowerCase(body.address)), id,
                        Value(toLowerCase(body.address)))
         ELSE ensReturn(m, id, NoValue)
    ELSE LET ensName == IF isString(body.ens_primary) /\ body.ens_primary # <<>>
                        THEN body.ens_primary ELSE body.ens
         IN  IF isString(ensName) /\ isEnsName(ensName)
             THEN ensReturn(ensCacheSet(m, id, ensName), id, Value(ensName))
             ELSE ensReturn(m, id, NoValue)

EnsInstall(m) ==
    /\ ensCache' = m.cache
    /\ ensPending' = m.pending
    /\ lookups' = m.lookups
    /\ UNCHANGED <<limiterVars, codecVars, resolverVars, playerVars, utilVars, gridVars>>

\* resolveEnsToAddress(arg) or resolveAddressToEns(arg) is called.
EnsCall(fn, arg) ==
    LET r == ensCallResult(fn, arg)
        key == ensCacheKey(fn, arg)
    IN  /\ lastEnsCall' = [fn |-> fn, arg |-> arg, kind |-> r.kind,
                           result |-> r.result, lookup |-> r.lookup]
        /\ IF r.kind = "new"
           THEN EnsInstall([EnsMachine EXCEPT
                    !.lookups = Append(@, [fn |-> fn, arg |-> arg, key |-> key,
                                           pc |-> "fetch", result |-> Pending,
                                           doneAt |-> 0]),
                    !.pending[key] = r.lookup])
           ELSE EnsInstall(EnsMachine)

\* fetch settles: it rejects, or resolves with a response that is ok or not.
EnsFetchSettles(id, outcome) ==
    /\ lookups[id].pc = "fetch"
    /\ EnsInstall(IF outcome = "ok"
                  THEN [EnsMachine EXCEPT !.lookups[id].pc = "json"]
                  ELSE ensReturn(EnsMachine, id, NoValue))
    /\ UNCHANGED lastEnsCall

\* response.json() settles: it rejects, or resolves with a body.
EnsJsonSettles(id, rejects, body) ==
    /\ lookups[id].pc = "json"
    /\ EnsInstall(IF rejects THEN ensReturn(EnsMachine, id, NoValue)
                  ELSE onEnsBody(EnsMachine, id, body))
    /\ UNCHANGED lastEnsCall

\* How far away the instants are at which a cache entry is served for the
\* last time and at which it is expired.
EnsDeadlines ==
    UNION {{ensCache[k].timestamp + ensCache[k].ttl,
            ensCache[k].timestamp + ensCache[k].ttl + 1}
           : k \in {j \in EnsKeys : ensCache[j].present}}

\* Time passes up to the next of these instants.
EnsTick ==
    /\ \E t \in {d \in EnsDeadlines : d > 0} :
          /\ \A d \in EnsDeadlines : d > 0 => t <= d
          /\ ensCache' =
                [k \in EnsKeys |->
                    IF ensCache[k].present
                    THEN [ensCache[k] EXCEPT
                             !.timestamp = Max(@ - t, 0 - (ENS_CACHE_TTL + 1))]
                    ELSE ensCache[k]]
          /\ lookups' =
                [i \in 1..Len(lookups) |->
                    IF lookups[i].pc = "done"
                    THEN [lookups[i] EXCEPT
                             !.doneAt = Max(@ - t, 0 - (ENS_CACHE_TTL + 1))]
                    ELSE lookups[i]]
    /\ UNCHANGED <<ensPending, lastEnsCall>>
    /\ UNCHANGED <<limiterVars, codecVars, resolverVars, playerVars, utilVars, gridVars>>

EnsInit ==
    /\ LimiterInit
    /\ CodecIdle
    /\ ResolverIdle
    /\ PlayerIdle
    /\ UtilIdle
    /\ GridIdle
    /\ ensCache = [k \in EnsKeys |-> NoEntry]
    /\ ensPending = [k \in EnsKeys |-> 0]
    /\ lookups = <<>>
    /\ lastEnsCall = [fn |-> "none", arg |-> <<>>, kind |-> "none",
                      result |-> NoValue, lookup |-> 0]

EnsNext ==
    \/ \E a \in EnsArgs :
          /\ ensCallResult(a.fn, a.arg).kind = "new" => Len(lookups) < MaxLookups
          /\ EnsCall(a.fn, a.arg)
    \/ \E id \in 1..Len(lookups), o \in {"reject", "not_ok", "ok"} :
          EnsFetchSettles(id, o)
    \/ \E id \in 1..Len(lookups), rejects \in BOOLEAN :
          \E body \in (IF rejects THEN {NoBody}
                       ELSE Bodies(lookups[id].fn, lookups[id].arg)) :
              EnsJsonSettles(id, rejects, body)
    \/ EnsTick

EnsSpec == EnsInit /\ [][EnsNext]_vars

(***************************************************************************)
(* Part 5.  The gallery player: the effect that loads the entries of the   *)
(* URL's selection, its cleanup, and the callbacks of the runs it started. *)
(* A run of a resolver is seen from the player: the snapshots it delivers  *)
(* hold a growing prefix of the selection's entries, and its array holds   *)
(* them all.  The order is never random (randomOrder is not 'true').       *)
(***************************************************************************)
\* The parameters the page is opened with: ?tokens=..., or ?selection=... of
\* a large collection, or of a smaller one that is loaded progressively, or
\* neither.
Params ==
    {[kind |-> "none", entries |-> <<>>],
     [kind |-> "tokens", entries |-> <<"t1", "t2">>],
     [kind |-> "large", entries |-> <<"l1", "l2">>],
     [kind |-> "progressive", entries |-> <<"a1", "a2", "a3">>],
     [kind |-> "progressive", entries |-> <<"b1">>]}

\* const QUICK_START_THRESHOLD = 500, scaled down to the selections above
QUICK_START_THRESHOLD == 2

\* The state of the component after its first render
FirstRender ==
    [galleryEntries |-> <<>>, shuffledEntries |-> <<>>, currentIndex |-> 0,
     loadingProgress |-> [loaded |-> 0, total |-> 0],
     canStartGallery |-> FALSE, initializing |-> TRUE, isLoadingComplete |-> FALSE]

\* useRef(false), useRef(null), useRef(0)
FirstRefs ==
    [galleryInitialized |-> FALSE, currentTokenId |-> "null", lastLoadedCount |-> 0]

\* The component and its refs between two steps.
Player == [gallery |-> gallery, refs |-> refs]

\* useEffect(() => { if (currentEntry?.tokenId) currentTokenIdRef.current = ... })
\* runs after every render that changed the current entry.
trackCurrent(c) ==
    LET g == c.gallery
    IN  IF g.currentIndex < Len(g.shuffledEntries)
        THEN [c EXCEPT !.refs.currentTokenId = g.shuffledEntries[g.currentIndex + 1]]
        ELSE c

\* A state setter of a component that is no longer mounted sets nothing.
render(c, g) == IF mounted THEN trackCurrent([c EXCEPT !.gallery = g]) ELSE c

\* newShuffledEntries.findIndex(entry => entry.tokenId === currentToken)
findIndex(entries, tokenId) ==
    IF \E k \in 1..Len(entries) : entries[k] = tokenId
    THEN (CHOOSE k \in 1..Len(entries) :
             entries[k] = tokenId /\ \A j \in 1..(k - 1) : entries[j] # tokenId) - 1
    ELSE 0 - 1

\* The onProgress callback the load effect gives to
\* resolveSelectionToTokenEntries
onProgress(c, run, progress) ==
    LET g0 == [c.gallery EXCEPT !.loadingProgress =
                                   [loaded |-> progress.loaded, total |-> progress.total]]
        found == findIndex(progress.entries, c.refs.currentTokenId)
        first == progress.loaded >= QUICK_START_THRESHOLD
                     \/ progress.loaded >= progress.total
        g1 == IF ~c.refs.galleryInitialized
              THEN IF first
                   THEN [g0 EXCEPT !.galleryEntries = progress.entries,
                                   !.shuffledEntries = progress.entries,
                                   !.canStartGallery = TRUE,
                                   !.initializing = FALSE]
                   ELSE g0
              ELSE IF Len(progress.entries) > c.refs.lastLoadedCount
              THEN [g0 EXCEPT !.galleryEntries = progress.entries,
                              !.shuffledEntries = progress.entries,
                              !.currentIndex =
                                  IF c.refs.currentTokenId # "null" /\ found # 0 - 1
                                  THEN found ELSE @]
              ELSE g0
        r1 == IF ~c.refs.galleryInitialized
              THEN IF first
                   THEN [c.refs EXCEPT !.galleryInitialized = TRUE,
                                       !.lastLoadedCount = Len(progress.entries)]
                   ELSE c.refs
              ELSE IF Len(progress.entries) > c.refs.lastLoadedCount
              THEN [c.refs EXCEPT !.lastLoadedCount = Len(progress.entries)]
              ELSE c.refs
        g2 == IF progress.loaded >= progress.total
              THEN [g1 EXCEPT !.isLoadingComplete = TRUE] ELSE g1
    IN  render([c EXCEPT !.refs = r1], g2)

\* load() after the await of its resolver: if (cancelled) return, then the
\* setters of its branch
onResolved(c, run) ==
    LET entries == run.param.entries
        ready == [c.gallery EXCEPT !.galleryEntries = entries,
                                   !.shuffledEntries = entries,
                                   !.canStartGallery = TRUE,
                                   !.initializing = FALSE]
        marked == [c EXCEPT !.refs.galleryInitialized = TRUE]
    IN  IF run.cancelled THEN c
        ELSE IF run.param.kind \in {"tokens", "large"}
        THEN render(marked, [ready EXCEPT !.isLoadingComplete = TRUE])
        ELSE IF ~c.refs.galleryInitialized
        THEN render(marked, [ready EXCEPT !.isLoadingComplete = TRUE])
        ELSE render(c, [c.gallery EXCEPT !.isLoadingComplete = TRUE])

\* return () => { cancelled = true }, of the effect that ran last
cleanup(runs) ==
    [k \in 1..Len(runs) |-> IF k = Len(runs) THEN [runs[k] EXCEPT !.cancelled = TRUE]
                            ELSE runs[k]]

\* The body of the effect, up to the first await of load()
effect(c, parameter) ==
    LET reset == [c EXCEPT !.refs.galleryInitialized = FALSE,
                           !.refs.lastLoadedCount = 0]
        g == [c.gallery EXCEPT !.canStartGallery = FALSE, !.initializing = TRUE]
    IN  IF parameter.kind = "none"
        THEN render(reset, [g EXCEPT !.galleryEntries = <<>>, !.shuffledEntries = <<>>,
                                     !.initializing = FALSE, !.canStartGallery = TRUE])
        ELSE render(reset, g)

\* The run load() awaits
Run(parameter, total) ==
    [param |-> parameter, total |-> total, cancelled |-> FALSE, shown |-> 0 - 1,
     pc |-> IF parameter.kind = "none" THEN "done" ELSE "awaiting"]

PlayerInstall(c) ==
    /\ gallery' = c.gallery
    /\ refs' = c.refs
    /\ UNCHANGED <<limiterVars, codecVars, resolverVars, ensVars, utilVars, gridVars>>

\* The page is opened: the component renders and its effect runs.
Mount(parameter, total) ==
    /\ ~mounted /\ loads = <<>>
    /\ mounted' = TRUE
    /\ loads' = <<Run(parameter, total)>>
    /\ gallery' = IF parameter.kind = "none"
                  THEN [FirstRender EXCEPT !.initializing = FALSE, !.canStartGallery = TRUE]
                  ELSE FirstRender
    /\ refs' = FirstRefs
    /\ UNCHANGED <<limiterVars, codecVars, resolverVars, ensVars, utilVars, gridVars>>

\* tokenIdsParam or selectionParam changes: the cleanup of the effect runs,
\* then the effect again.
ParamChange(parameter, total) ==
    /\ mounted
    /\ Len(loads) < MaxLoads
    /\ parameter # loads[Len(loads)].param
    /\ loads' = Append(cleanup(loads), Run(parameter, total))
    /\ PlayerInstall(effect(Player, parameter))
    /\ UNCHANGED mounted

\* The component unmounts: the cleanup of the effect runs.
Unmount ==
    /\ mounted
    /\ mounted' = FALSE
    /\ loads' = cleanup(loads)
    /\ UNCHANGED <<gallery, refs, limiterVars, codecVars, resolverVars, ensVars, utilVars, gridVars>>

\* The run at r delivers a snapshot with the first n entries of its selection.
ProgressArrives(r, n) ==
    /\ loads[r].pc = "awaiting"
    /\ loads[r].param.kind = "progressive"
    /\ n > loads[r].shown \/ n = Len(loads[r].param.entries)
    /\ loads' = [loads EXCEPT ![r].shown = n]
    /\ PlayerInstall(onProgress(Player, loads[r],
                                [loaded |-> n, total |-> loads[r].total,
                                 entries |-> SubSeq(loads[r].param.entries, 1, n)]))
    /\ UNCHANGED mounted

\* The promise load() awaits is fulfilled.  A progressive run has delivered
\* the snapshot with all its entries before.
RunResolves(r) ==
    /\ loads[r].pc = "awaiting"
    /\ loads[r].param.kind = "progressive"
          => loads[r].shown = Len(loads[r].param.entries)
    /\ loads' = [loads EXCEPT ![r].pc = "done"]
    /\ PlayerInstall(onResolved(Player, loads[r]))
    /\ UNCHANGED mounted

\* nextSlide
NextSlide ==
    /\ mounted
    /\ Len(gallery.shuffledEntries) > 1
    /\ PlayerInstall(render(Player,
           [gallery EXCEPT !.currentIndex = (@ + 1) % Len(gallery.shuffledEntries)]))
    /\ UNCHANGED <<mounted, loads>>

\* Math.min(totalExpected, max) of a run: the count of its entries, or an
\* estimate that is larger.
Totals(parameter) == {Len(parameter.entries), Len(parameter.entries) + 1}

PlayerInit ==
    /\ LimiterInit
    /\ CodecIdle
    /\ ResolverIdle
    /\ EnsIdle
    /\ UtilIdle
    /\ GridIdle
    /\ mounted = FALSE
    /\ loads = <<>>
    /\ gallery = FirstRender
    /\ refs = FirstRefs

PlayerNext ==
    \/ \E parameter \in Params : \E total \in Totals(parameter) : Mount(parameter, total)
    \/ \E parameter \in Params : \E total \in Totals(parameter) : ParamChange(parameter, total)
    \/ Unmount
    \/ \E r \in 1..Len(loads) : \E n \in 0..Len(loads[r].param.entries) :
          ProgressArrives(r, n)
    \/ \E r \in 1..Len(loads) : RunResolves(r)
    \/ NextSlide

PlayerSpec == PlayerInit /\ [][PlayerNext]_vars

(***************************************************************************)
(* Part 6.  truncateEthAddress of src/lib/utils.ts.                        *)
(***************************************************************************)
\* String.prototype.slice(begin): a negative index counts from the end, and
\* an index beyond either end is that end
sliceFrom(s, begin) ==
    LET from == IF begin < 0 THEN Max(Len(s) + begin, 0) ELSE Min(begin, Len(s))
    IN  SubSeq(s, from + 1, Len(s))

Ellipsis == Str(<<".", ".", ".">>)

\* prefixLength = 6, suffixLength = 4: the defaults
DEFAULT_PREFIX_LENGTH == 6
DEFAULT_SUFFIX_LENGTH == 4

truncateEthAddress(address, prefixLength, suffixLength) ==
    IF address = <<>> \/ Len(address) <= prefixLength + suffixLength
    THEN address
    ELSE slice(address, 0, prefixLength) \o Ellipsis
             \o sliceFrom(address, 0 - suffixLength)

\* The addresses truncated: the first characters of one address, none to all.
LongAddress ==
    Str(<<"0", "x", "1", "2", "3", "4", "5", "6", "7", "8", "9", "a", "b", "c">>)

Addresses == {SubSeq(LongAddress, 1, n) : n \in 0..Len(LongAddress)}

\* The lengths asked for: up to MaxAffix, or the default.
PrefixLengths == 0..MaxAffix \cup {DEFAULT_PREFIX_LENGTH}
SuffixLengths == 0..MaxAffix \cup {DEFAULT_SUFFIX_LENGTH}

\* truncateEthAddress returns.
Truncate ==
    /\ truncation.pc = "called"
    /\ truncation' =
           [truncation EXCEPT
               !.pc = "returned",
               !.result = truncateEthAddress(truncation.address,
                                             truncation.prefixLength,
                                             truncation.suffixLength)]
    /\ UNCHANGED <<limiterVars, codecVars, resolverVars, ensVars, playerVars, gridVars>>

UtilInit ==
    /\ LimiterInit
    /\ CodecIdle
    /\ ResolverIdle
    /\ EnsIdle
    /\ PlayerIdle
    /\ GridIdle
    /\ truncation \in [pc : {"called"}, address : Addresses,
                       prefixLength : PrefixLengths, suffixLength : SuffixLengths,
                       result : {<<>>}]

UtilNext == Truncate

UtilSpec == UtilInit /\ [][UtilNext]_vars

(***************************************************************************)
(* Part 7.  useGridData of src/hooks/useGridData.ts: the effect that calls *)
(* loadTokens, its cleanup, refetch, and the continuation of every         *)
(* loadTokens after its one await, the graphqlRequest of the project.      *)
(* Of the hook's state the fields artistName and isSubset, which are set   *)
(* together with projectName, are left out.                                *)
(***************************************************************************)
\* The projects the index knows by slug; 'gone' is the slug of none.
GridSlugs == {"sq", "tri", "gone"}

GridProjects(slug) ==
    IF slug = "sq"
    THEN <<[name |-> "Squares", invocations |-> 2, project_id |-> 1]>>
    ELSE IF slug = "tri"
    THEN <<[name |-> "Triangles", invocations |-> 1, project_id |-> 2]>>
    ELSE <<>>

\* What graphqlRequest resolves to: the rows of the slug, or null after a
\* request that failed.
GridAnswers(slug) ==
    {[null |-> FALSE, projects_metadata |-> GridProjects(slug)],
     [null |-> TRUE, projects_metadata |-> <<>>]}

\* The invocations of the project of a slug, 0 when it has none
GridInvocations(slug) ==
    IF GridProjects(slug) = <<>> THEN 0 ELSE GridProjects(slug)[1].invocations

\* useState<GridDataState>({ tokens: [], loading: true, error: null, ... })
FirstGridState ==
    [tokens |-> <<>>, loading |-> TRUE, error |-> <<>>,
     progress |-> [loaded |-> 0, total |-> 0, percentage |-> 0],
     projectName |-> "undefined", totalTokens |-> NotNumber]

\* new Error(`Project with slug '${slug}' not found`).message; null is <<>>
ErrorNotFound(slug) == <<"Project with slug", slug, "not found">>

\* The hook between two steps.
Grid == [state |-> gridState, mountedRef |-> mountedRef]

\* The outcomes of the Fisher-Yates shuffle of Array.from({ length: n }, (_, i) => i)
GridShuffles(n) ==
    {s \in [1..n -> 0..(n - 1)] : \A i, j \in 1..n : s[i] = s[j] => i = j}

\* [...].sort((a, b) => a - b) of distinct numbers
ascending(S) ==
    IF S = {} THEN <<>>
    ELSE CHOOSE s \in [1..Cardinality(S) -> S] :
             \A i, j \in 1..Cardinality(S) : i < j => s[i] < s[j]

selectedIndices(expectedTotal, itemsToLoad, shuffled) ==
    IF expectedTotal > itemsToLoad
    THEN ascending({shuffled[k] : k \in 1..itemsToLoad})
    ELSE [k \in 1..itemsToLoad |-> k - 1]

\* setState of the hook
setState(h, next) == [h EXCEPT !.state = next]

\* loadTokens up to its await: setState(prev => ({ ...prev, loading: true,
\* error: null }))
loadTokens(h) == setState(h, [h.state EXCEPT !.loading = TRUE, !.error = <<>>])

\* loadTokens after its await, for the slug and the count of its closure
loadTokensResumes(h, run, data, shuffled) ==
    LET rows == IF data.null THEN <<>> ELSE data.projects_metadata
        project == rows[1]
        expectedTotal == project.invocations
        itemsToLoad == Min(run.requestedItems, expectedTotal)
        indices == selectedIndices(expectedTotal, itemsToLoad, shuffled)
        tokens == [k \in 1..Len(indices) |->
                      [tokenId |-> project.project_id * 1000000 + indices[k],
                       projectName |-> project.name, invocation |-> indices[k]]]
        total == IF h.mountedRef
                 THEN setState(h, [h.state EXCEPT !.progress.total = expectedTotal])
                 ELSE h
    IN  IF rows = <<>>
        THEN IF h.mountedRef
             THEN setState(h, [h.state EXCEPT !.loading = FALSE,
                                              !.error = ErrorNotFound(run.slug)])
             ELSE h
        ELSE IF total.mountedRef
        THEN setState(total,
                 [total.state EXCEPT
                     !.tokens = tokens, !.loading = FALSE,
                     !.projectName = project.name,
                     !.totalTokens = expectedTotal,
                     !.progress = [loaded |-> Len(tokens), total |-> Len(tokens),
                                   percentage |-> 100]])
        ELSE total

\* The loadTokens calls that await the request of one slug continue in the
\* order they were made: they await one promise, that of the pending
\* request.
RECURSIVE settle(_, _, _, _, _, _)
settle(h, runs, k, slug, data, shuffles) ==
    IF k > Len(runs) THEN h
    ELSE IF runs[k].slug = slug /\ runs[k].pc = "awaiting"
    THEN settle(loadTokensResumes(h, runs[k], data, shuffles[k]),
                runs, k + 1, slug, data, shuffles)
    ELSE settle(h, runs, k + 1, slug, data, shuffles)

GridRun(slug, requestedItems) ==
    [slug |-> slug, requestedItems |-> requestedItems, pc |-> "awaiting"]

GridInstall(h) ==
    /\ gridState' = h.state
    /\ mountedRef' = h.mountedRef
    /\ UNCHANGED <<limiterVars, codecVars, resolverVars, ensVars, playerVars, utilVars>>

\* The component renders for the first time and its effect runs:
\* mountedRef.current = true; loadTokens()
GridMount ==
    /\ ~gridMounted /\ gridLoads = <<>>
    /\ gridMounted' = TRUE
    /\ gridLoads' = <<GridRun(gridProps.slug, gridProps.requestedItems)>>
    /\ GridInstall(loadTokens([Grid EXCEPT !.mountedRef = TRUE]))
    /\ UNCHANGED gridProps

\* slug or requestedItems changes: loadTokens is a new callback, so the
\* cleanup of the effect runs (mountedRef.current = false), then the effect.
GridPropsChange(slug, requestedItems) ==
    /\ gridMounted
    /\ Len(gridLoads) < MaxGridLoads
    /\ gridProps # [slug |-> slug, requestedItems |-> requestedItems]
    /\ gridProps' = [slug |-> slug, requestedItems |-> requestedItems]
    /\ gridLoads' = Append(gridLoads, GridRun(slug, requestedItems))
    /\ GridInstall(loadTokens([[Grid EXCEPT !.mountedRef = FALSE]
                                  EXCEPT !.mountedRef = TRUE]))
    /\ UNCHANGED gridMounted

\* refetch(): loadTokens of the last render
GridRefetch ==
    /\ gridMounted
    /\ Len(gridLoads) < MaxGridLoads
    /\ gridLoads' = Append(gridLoads, GridRun(gridProps.slug, gridProps.requestedItems))
    /\ GridInstall(loadTokens(Grid))
    /\ UNCHANGED <<gridMounted, gridProps>>

\* The component unmounts: the cleanup of the effect runs.
GridUnmount ==
    /\ gridMounted
    /\ gridMounted' = FALSE
    /\ GridInstall([Grid EXCEPT !.mountedRef = FALSE])
    /\ UNCHANGED <<gridProps, gridLoads>>

\* The request of a slug settles with data.
GridRequestSettles(slug, data, shuffles) ==
    /\ \E k \in 1..Len(gridLoads) :
           gridLoads[k].slug = slug /\ gridLoads[k].pc = "awaiting"
    /\ gridLoads' = [k \in 1..Len(gridLoads) |->
                        IF gridLoads[k].slug = slug
                        THEN [gridLoads[k] EXCEPT !.pc = "done"]
                        ELSE gridLoads[k]]
    /\ GridInstall(settle(Grid, gridLoads, 1, slug, data, shuffles))
    /\ UNCHANGED <<gridMounted, gridProps>>

GridInit ==
    /\ LimiterInit
    /\ CodecIdle
    /\ ResolverIdle
    /\ EnsIdle
    /\ PlayerIdle
    /\ UtilIdle
    /\ gridMounted = FALSE
    /\ mountedRef = TRUE
    /\ gridLoads = <<>>
    /\ gridState = FirstGridState
    /\ gridProps \in [slug : GridSlugs, requestedItems : 1..MaxRequestedItems]

GridNext ==
    \/ GridMount
    \/ \E slug \in GridSlugs, n \in 1..MaxRequestedItems : GridPropsChange(slug, n)
    \/ GridRefetch
    \/ GridUnmount
    \/ \E slug \in GridSlugs : \E data \in GridAnswers(slug) :
           \E shuffles \in [1..Len(gridLoads) -> GridShuffles(GridInvocations(slug))] :
               GridRequestSettles(slug, data, shuffles)

GridSpec == GridInit /\ [][GridNext]_vars

CodecInit ==
    /\ LimiterInit
    /\ ResolverIdle
    /\ EnsIdle
    /\ PlayerIdle
    /\ UtilIdle
    /\ GridIdle
    /\ \/ cart \in Carts(MaxItems) /\ param = StringParam(<<>>) /\ codecPc = "serialize"
       \/ cart = <<>> /\ param \in RawParams(MaxPieces, MaxEncodings) /\ codecPc = "called"
    /\ prev = <<>>
    /\ rounds = 0
    /\ items = <<>>

CodecNext == SerializeCall \/ ParseCall \/ DecodeStep \/ ParseParts

CodecSpec == CodecInit /\ [][CodecNext]_vars

Init == LimiterInit /\ CodecIdle /\ ResolverIdle /\ EnsIdle /\ PlayerIdle /\ UtilIdle
            /\ GridIdle

\* The steps of the program and its environment, which calls with the inputs
\* In, starts at most R requests, fails at most F fetches and takes at most S
\* short delays.
NextWithin(In, R, F, S) ==
    \/ \E i \in In :
          IF callResult(getCacheKey(i.query, i.variables)).kind = "new"
          THEN Len(reqs) < R /\ \E t \in MayThrow(F) : graphqlRequest(i, t)
          ELSE graphqlRequest(i, FALSE)
    \/ \E t \in MayThrow(F) : DrainerWake(t)
    \/ \E id \in 1..Len(reqs), o \in Outcomes :
          /\ o \in Failures => nFailures < F
          /\ \E d \in (IF o = "ok_data" THEN Data ELSE {"null"}) : FetchSettle(id, o, d)
    \/ \E id \in 1..Len(reqs), t \in MayThrow(F) : RetryTimer(id, t)
    \/ Tick
    \/ (shortTicks < S /\ ShortTick)

Next == NextWithin(Inputs, MaxRequests, MaxFailures, MaxShortTicks)

Spec == Init /\ [][Next]_vars

\* One query, called again and again while the remote fails.
RetryInputs == {[query |-> QueryB, variables |-> "v"]}

RetryNext == NextWithin(RetryInputs, RetryRequests, RetryFailures, RetryShortTicks)

\* The event loop runs every timer that is due, the clock advances, and
\* every fetch settles.
Fairness ==
    /\ WF_vars(Tick)
    /\ WF_vars(\E t \in BOOLEAN : DrainerWake(t))
    /\ \A id \in 1..RetryRequests :
          /\ WF_vars(\E o \in Outcomes, d \in Data \cup {"null"} : FetchSettle(id, o, d))
          /\ WF_vars(\E t \in BOOLEAN : RetryTimer(id, t))

RetrySpec == Init /\ [][RetryNext]_vars /\ Fairness

(***************************************************************************)
(* Properties of the request limiter.                                      *)
(***************************************************************************)
\* The cache entry of `key` holds a response and is no older than the TTL.
CachedWithinTTL(key) ==
    requestCache[key].present /\ now - requestCache[key].timestamp <= CACHE_TTL

\* C1: once a response is cached for a key, a call with that key made within
\* the 5-minute TTL returns the cached data and starts nothing: no request of
\* that key is queued, fetching or backing off while the entry is that young.
C1_CacheHitAvoidsNetwork ==
    \A i \in Inputs :
        LET key == getCacheKey(i.query, i.variables) IN
        CachedWithinTTL(key) =>
            /\ callResult(key).kind = "hit"
            /\ callResult(key).data = requestCache[key].data
            /\ InFlight(reqs, key) = 0

\* A response with data is cached, the TTL has run to its last millisecond and
\* two spellings of the query lead to it.
C1_Witness ==
    /\ getCacheKey(QueryA, "v") = getCacheKey(QueryA2, "v")
    /\ requestCache[getCacheKey(QueryA2, "v")].present
    /\ requestCache[getCacheKey(QueryA2, "v")].data \in Data
    /\ now - requestCache[getCacheKey(QueryA2, "v")].timestamp = CACHE_TTL

\* C2: while a request of a key is in flight (queued, fetching or backing
\* off) it is the only one of that key, and a call with that key returns its
\* promise and starts nothing.
C2_InFlightDeduplicated ==
    \A key \in Keys :
        /\ Cardinality({id \in 1..Len(reqs) : reqs[id].key = key /\ reqs[id].pc # "done"}) <= 1
        /\ InFlight(reqs, key) # 0 =>
              /\ callResult(key).kind = "joined"
              /\ callResult(key).promise = InFlight(reqs, key)
              /\ reqs[InFlight(reqs, key)].result = "pending"

\* A request is backing off behind an expired cache entry of its key, while
\* another waits in the queue.
C2_Witness ==
    \E id \in 1..Len(reqs) :
        /\ reqs[id].pc = "backoff"
        /\ requestCache[reqs[id].key].present
        /\ Len(requestQueue) > 0

\* C3: requests are dispatched in the order in which they were enqueued, and
\* a dispatch is at least MIN_REQUEST_INTERVAL after the one before it.
C3_FifoAndSpacing ==
    /\ lastDispatch.id # 0 => lastDispatch.id = lastDispatch.prev + 1
    /\ lastDispatch.prev # 0 => lastDispatch.gap >= MIN_REQUEST_INTERVAL
    /\ \A i \in 1..Len(requestQueue) :
          /\ requestQueue[i] > lastDispatch.id
          /\ i > 1 => requestQueue[i - 1] < requestQueue[i]

\* The third request has been dispatched after the second, and time has
\* passed by an amount that is no multiple of the interval.
C3_Witness ==
    /\ lastDispatch.id = 3
    /\ lastDispatch.prev = 2
    /\ shortTicks > 0

\* Request id ends in this step, without a new failure of a fetch.
EndsUnfailed(id) ==
    /\ reqs[id].pc # "done"
    /\ reqs'[id].pc = "done"
    /\ nFailures' = nFailures

\* C4: a request whose every attempt was answered with the rate-limit error
\* makes exactly 3 attempts, then resolves to null; no request makes a fourth
\* attempt, and a rate-limited request does not hang.
C4_RateLimitExhaustion ==
    /\ [][\A id \in 1..Len(reqs) :
            /\ reqs'[id].attempts <= MAX_ATTEMPTS
            /\ (reqs[id].answered = "rl" /\ reqs[id].pc = "backoff" /\ EndsUnfailed(id)) =>
                  /\ reqs[id].attempts = MAX_ATTEMPTS
                  /\ reqs'[id].result = "null"
                  /\ requestCache' = requestCache]_vars
    /\ \A id \in 1..RetryRequests :
          (Len(reqs) >= id /\ reqs[id].answered = "rl")
              ~> (Len(reqs) >= id /\ reqs[id].pc = "done" /\ reqs[id].result # "pending")

\* Three attempts of a request were all answered with the rate-limit error,
\* and its last backoff (the capped 8000 ms) has run out.
C4_Witness ==
    \E id \in 1..Len(reqs) :
        /\ reqs[id].answered = "rl"
        /\ reqs[id].pc = "backoff"
        /\ reqs[id].attempts = MAX_ATTEMPTS
        /\ reqs[id].wake = now
        /\ reqs[id].result = "pending"

\* C5 (as the specification states it): a request that a failed fetch ends
\* with null has made 3 attempts.
C5_NullOnlyAfterThirdFailure ==
    [][\A id \in 1..Len(reqs) :
          (reqs[id].pc = "fetching" /\ reqs'[id].pc = "done" /\ nFailures' > nFailures) =>
              reqs[id].attempts = MAX_ATTEMPTS]_vars

\* C6 (as the specification states it): no call is answered with null from
\* the cache.
C6_NullNeverCached ==
    \A key \in Keys : ~(callResult(key).kind = "hit" /\ callResult(key).data = "null")

\* C7: every promise graphqlRequest has created settles, with the data or
\* with null, whatever the remote answers; it stays settled with that value,
\* and a closure that has run to its end has settled its promise.
C7_AlwaysSettles ==
    /\ \A id \in 1..RetryRequests :
          (Len(reqs) >= id) ~> (Len(reqs) >= id /\ reqs[id].result \in Data \cup {"null"})
    /\ [][\A id \in 1..Len(reqs) :
            /\ reqs[id].result # "pending" => reqs'[id].result = reqs[id].result
            /\ reqs'[id].pc = "done" => reqs'[id].result \in Data \cup {"null"}]_vars

\* Every failure the remote can afford has happened, one request has ended
\* with null and another with data.
C7_Witness ==
    /\ nFailures >= RetryFailures
    /\ \E id \in 1..Len(reqs) : reqs[id].pc = "done" /\ reqs[id].result = "null"
    /\ \E id \in 1..Len(reqs) : reqs[id].pc = "done" /\ reqs[id].result \in Data

(***************************************************************************)
(* Properties of the selection codec.                                      *)
(***************************************************************************)
\* The values of the cart are non-empty and hold no ',' and no ':'.
DelimiterFree(list) ==
    \A i \in 1..Len(list) :
        /\ list[i].value # <<>>
        /\ \A j \in 1..Len(list[i].value) : list[i].value[j] \notin {COMMA, COLON}

\* C8 (as the specification states it): a cart whose values are non-empty and
\* hold no ',' and no ':' is what parseSelection returns for its
\* serialization.
C8_RoundTrip ==
    (codecPc = "returned" /\ param = StringParam(serializeSelection(cart)) /\ DelimiterFree(cart))
        => items = cart

\* C9: what decodeFully returns is a fixed point of decodeFully, and
\* parseSelection returns the same list for a string, for its fully decoded
\* form, and for the string one round of URL decoding ('+' to space, then
\* percent-decoding) makes of it.
C9_DecodeIdempotent ==
    (codecPc = "returned" /\ param.kind = "string") =>
        LET full == decodeFully(param.s)
            once == decodeURIComponent(replacePlus(param.s))
        IN  /\ decodeFully(full) = full
            /\ parseSelection(StringParam(full)) = items
            /\ once.ok => parseSelection(StringParam(once.s)) = items

\* A string that took three iterations to decode has given an item.
C9_Witness ==
    /\ codecPc = "returned"
    /\ param.kind = "string"
    /\ rounds >= 3
    /\ decodeURIComponent(replacePlus(param.s)).ok
    /\ items # <<>>

\* A part with a type of SelectionItem before its first colon and a value
\* after it.
WellFormed(part) ==
    \E i \in 2..(Len(part) - 1) :
        /\ part[i] = COLON
        /\ \A j \in 1..(i - 1) : part[j] # COLON
        /\ SubSeq(part, 1, i - 1) \in SelectionTypes

ItemOf(part) ==
    LET i == CHOOSE k \in 1..Len(part) : part[k] = COLON /\ \A j \in 1..(k - 1) : part[j] # COLON
    IN  [type |-> SubSeq(part, 1, i - 1), value |-> SubSeq(part, i + 1, Len(part))]

WellFormedItems(p) ==
    IF p.kind # "string" \/ p.s = <<>> THEN <<>>
    ELSE LET good == SelectSeq(rawParts(decodeFully(p.s)), WellFormed)
         IN  [k \in 1..Len(good) |-> ItemOf(good[k])]

\* C10: parseSelection returns for every parameter (null, undefined, the
\* empty string and malformed percent-encoding included): its decoding loop
\* shortens the string in every iteration that does not return, and the list
\* returned is the well-formed parts of the decoded string, in their order.
C10_SkipsMalformedParts ==
    /\ codecPc \in {"serialize", "called", "decoding", "decoded", "returned"}
    /\ codecPc = "decoding" => rounds + Len(prev) <= Len(param.s)
    /\ codecPc = "returned" => items = WellFormedItems(param)

\* A malformed percent-encoding ended the decoding, and of three parts the
\* first and the last were returned.
C10_Witness ==
    /\ codecPc = "returned"
    /\ param.kind = "string"
    /\ ~decodeURIComponent(replacePlus(prev)).ok
    /\ Len(rawParts(prev)) = 3
    /\ Len(items) = 2
    /\ items[1].type # items[2].type

(***************************************************************************)
(* Properties of the selection resolvers.                                  *)
(***************************************************************************)
\* The contract address is the placeholder, in any letter case.
IsPlaceholder(address) ==
    isString(address) /\ toLowerCase(address) = ZERO_ENGINE_ADDRESS

\* The unique ids of the rows of the index on the placeholder contract.
PlaceholderRowIds ==
    {TokensMetadata[k].id : k \in {j \in 1..Len(TokensMetadata) :
                                      IsPlaceholder(TokensMetadata[j].contract_address)}}

EntriesReturned ==
    call.fn = "resolveSelectionToTokenEntries" /\ frame.pc = "returned"

IdsReturned ==
    call.fn = "resolveSelectionTokenIds" /\ frame.pc = "returned"

\* C11 (as the specification states it): no entry returned by
\* resolveSelectionToTokenEntries or delivered in a progress snapshot, and no
\* identifier returned by resolveSelectionTokenIds, comes from a row of the
\* placeholder contract, whatever the kinds of the selection items.
C11_PlaceholderFiltered ==
    /\ \A k \in 1..Len(snapshots) : \A j \in 1..Len(snapshots[k].entries) :
          ~IsPlaceholder(snapshots[k].entries[j].contractAddress)
    /\ EntriesReturned =>
          \A j \in 1..Len(frame.result) : ~IsPlaceholder(frame.result[j].contractAddress)
    /\ IdsReturned =>
          \A j \in 1..Len(frame.result) : frame.result[j] \notin PlaceholderRowIds

\* The token an entry or a row stands for: its contract and its token id.
TokenOf(e) == <<toLowerCase(e.contractAddress), e.tokenId>>

\* The tokens the pagers of the run were given by the index, placeholder
\* rows aside.
TokensPaged ==
    UNION {{TokenOf(TokenEntry(Rows(trace[k].query)[j])) :
               j \in {i \in 1..Len(Rows(trace[k].query)) :
                         ~IsPlaceholder(Rows(trace[k].query)[i].contract_address)}} :
           k \in {i \in 1..Len(trace) :
                     /\ trace[i].answered /\ ~trace[i].null
                     /\ trace[i].query.table = "tokens_metadata"
                     /\ trace[i].fn # "tokensByIdWithLiveView"}}

\* C12 (as the specification states it): the list
\* resolveSelectionToTokenEntries returns holds no token (contract address
\* and token id) twice, and, when max did not cut it, holds every token its
\* pages brought, tokens of one token id on two contracts included.
C12_EachTokenOnce ==
    EntriesReturned =>
        /\ \A i, j \in 1..Len(frame.result) :
              TokenOf(frame.result[i]) = TokenOf(frame.result[j]) => i = j
        /\ Len(frame.result) < call.max =>
              \A t \in TokensPaged :
                 \E i \in 1..Len(frame.result) : TokenOf(frame.result[i]) = t

\* The tokens of the index an identifier denotes: the row of that unique
\* id, or the rows of that plain token id (as tokensByIdWithLiveView looks
\* identifiers up).
Denoted(identifier) ==
    {k \in 1..Len(TokensMetadata) :
        IF isUniqueId(identifier) THEN TokensMetadata[k].id = identifier
        ELSE TokensMetadata[k].token_id = identifier}

\* C13 (as the specification states it): no two identifiers of the list
\* resolveSelectionTokenIds returns denote the same token, whether they are
\* unique row ids or plain token ids.
C13_NoTokenUnderTwoIdentifiers ==
    IdsReturned =>
        \A i, j \in 1..Len(frame.result) :
            i # j => Denoted(frame.result[i]) \cap Denoted(frame.result[j]) = {}

\* The percentage is a number from 0 to 100.
InPercentRange(p) == ~p.nan /\ 0 <= p.num /\ p.num <= 100 * p.den

\* C14 (as the specification states it): of two successive snapshots given to
\* onProgress the later has loaded at least as large as the earlier, and the
\* percentage of every snapshot is a number in 0..100, for every selection
\* and every max.
C14_ProgressMonotone ==
    \A k \in 1..Len(snapshots) :
        /\ InPercentRange(snapshots[k].percentage)
        /\ k > 1 => snapshots[k].loaded >= snapshots[k - 1].loaded

\* The request at k of the trace asks for a page of tokens.
IsPageRequest(k) ==
    /\ trace[k].query.table = "tokens_metadata"
    /\ trace[k].query.limit # NoLimit

\* The index answered the page request at k with fewer rows than asked for.
ShortPage(k) ==
    /\ IsPageRequest(k)
    /\ trace[k].answered /\ ~trace[k].null
    /\ trace[k].rows < trace[k].query.limit

\* The index answered the page request at k with a full page.
FullPage(k) ==
    /\ IsPageRequest(k)
    /\ trace[k].answered /\ ~trace[k].null
    /\ trace[k].rows = trace[k].query.limit

\* The page requests of the pager call that issued the request at k.
SamePagerCall(k) ==
    {j \in 1..Len(trace) :
        IsPageRequest(j) /\ trace[j].item = trace[k].item /\ trace[j].fn = trace[k].fn}

\* C15: a pager that got full pages and then a page shorter than the page
\* size has issued its last page request: it issues no further one and,
\* called on its own, has returned.
C15_StopsAfterShortPage ==
    \A k \in 1..Len(trace) :
        ShortPage(k) =>
            /\ \A j \in SamePagerCall(k) : j <= k
            /\ call.fn \in Pagers => k = Len(trace) /\ frame.pc = "returned"

\* A pager called on its own has returned after two or more page requests, the
\* last answered with a short page and the others with full ones.
C15_Witness ==
    /\ call.fn \in Pagers
    /\ frame.pc = "returned"
    /\ Cardinality(SamePagerCall(Len(trace))) >= 2
    /\ ShortPage(Len(trace))
    /\ \A j \in SamePagerCall(Len(trace)) : j < Len(trace) => FullPage(j)

\* The rows of the index owned by the address, placeholder rows aside.
OwnedBy(address) ==
    {k \in 1..Len(TokensMetadata) :
        /\ toLowerCase(TokensMetadata[k].owner_address) = address
        /\ ~IsPlaceholder(TokensMetadata[k].contract_address)}

\* The selection is one collector item, an ENS name the name service resolves.
OneEnsCollector ==
    /\ Len(call.items) = 1
    /\ call.items[1].type = "collector"
    /\ isEnsName(call.items[1].value)
    /\ ensAddress(call.items[1].value) # Undefined

\* C16 (as the specification states it): for a collector item that is an ENS
\* name resolving to an address A, both resolvers (max left to its default,
\* every request answered) return the tokens the index reports as owned by A,
\* and no query of the run filters owners by the literal ENS name.
C16_EnsCollectorResolved ==
    OneEnsCollector =>
        /\ \A k \in 1..Len(trace) :
              trace[k].query.field = "owner_address" =>
                 \A i \in 1..Len(trace[k].query.operand) :
                    ~includes(trace[k].query.operand[i], call.items[1].value)
        /\ (frame.pc = "returned" /\ nullAnswers = 0
              /\ call.max \in {DEFAULT_MAX, DEFAULT_IDS_MAX}) =>
              IF call.fn = "resolveSelectionToTokenEntries"
              THEN {TokenOf(frame.result[i]) : i \in 1..Len(frame.result)}
                   = {TokenOf(TokenEntry(TokensMetadata[k])) :
                         k \in OwnedBy(ensAddress(call.items[1].value))}
              ELSE Range(frame.result)
                   = {TokensMetadata[k].id :
                         k \in OwnedBy(ensAddress(call.items[1].value))}

\* The request at k of the trace filters tokens by artist name with op.
ArtistQuery(k, op) ==
    /\ trace[k].query.table = "tokens_metadata"
    /\ trace[k].query.field = "artist_name"
    /\ trace[k].query.op = op

\* C17 (as the specification states it): in both resolvers a fuzzy artist-
\* name query of an artist item is issued only after an exact artist-name
\* query of that item, and after that query has come back without rows.
C17_ArtistExactFirst ==
    call.fn \in {"resolveSelectionTokenIds", "resolveSelectionToTokenEntries"} =>
        \A k \in 1..Len(trace) :
            ArtistQuery(k, "_ilike") =>
                \E j \in 1..(k - 1) :
                    /\ ArtistQuery(j, "_eq")
                    /\ trace[j].item = trace[k].item
                    /\ trace[j].query.operand = <<call.items[trace[k].item].value>>
                    /\ trace[j].answered /\ trace[j].rows = 0

\* C18 (as the specification states it): every token query the resolvers
\* issue for a project item filters the project name by a case-insensitive
\* contains match on the term, never by equality.
C18_ProjectFuzzyOnly ==
    call.fn \in {"resolveSelectionTokenIds", "resolveSelectionToTokenEntries"} =>
        \A k \in 1..Len(trace) :
            (trace[k].query.table = "tokens_metadata"
                /\ call.items[trace[k].item].type = "project") =>
               /\ trace[k].query.field = "project_name"
               /\ trace[k].query.op = "_ilike"
               /\ trace[k].query.operand = <<wrapIlike(call.items[trace[k].item].value)>>

\* The request at k of the trace asks the index for tokens.
IsTokenRequest(k) == trace[k].query.table = "tokens_metadata"

\* C19: in a run of resolveSelectionToTokenEntries a request is issued only
\* when every earlier one has been answered, the page requests of one item
\* have strictly increasing offsets, and the token requests follow the
\* order of the items in the selection.
C19_SequentialInOrder ==
    call.fn = "resolveSelectionToTokenEntries" =>
        /\ \A k \in 1..(Len(trace) - 1) : trace[k].answered
        /\ \A j, k \in 1..Len(trace) :
              (j < k /\ IsTokenRequest(j) /\ IsTokenRequest(k)) =>
                 /\ trace[j].item <= trace[k].item
                 /\ (trace[j].item = trace[k].item
                        /\ IsPageRequest(j) /\ IsPageRequest(k)) =>
                       trace[j].query.offset < trace[k].query.offset

\* A run over two items has returned after two or more page requests for
\* the first item and a page request for the second.
C19_Witness ==
    /\ EntriesReturned
    /\ Len(call.items) = 2
    /\ Cardinality({k \in 1..Len(trace) : IsPageRequest(k) /\ trace[k].item = 1}) >= 2
    /\ \E k \in 1..Len(trace) : IsPageRequest(k) /\ trace[k].item = 2

\* C20 (as the specification states it): neither resolver returns more than
\* max results, and no token request is issued once the call holds max
\* results.
C20_MaxRespected ==
    call.fn \in {"resolveSelectionTokenIds", "resolveSelectionToTokenEntries"} =>
        /\ frame.pc = "returned" => Len(frame.result) <= call.max
        /\ \A k \in 1..Len(trace) : IsTokenRequest(k) => trace[k].held < call.max

\* The total of the snapshots is exact: the selection has token and project
\* items only, and every ProjectInvocations query found the project's count.
ExactTotal ==
    /\ call.fn = "resolveSelectionToTokenEntries"
    /\ \A i \in 1..Len(call.items) : call.items[i].type \in {"token", "project"}
    /\ \A k \in 1..Len(trace) :
          trace[k].query.name = "ProjectInvocations" /\ trace[k].answered
              => trace[k].shape = "rows" /\ trace[k].rows > 0

\* C21 (as the specification states it): in every progress snapshot whose
\* total is not a rough estimate, loaded is at most total (and so at most
\* max).
C21_LoadedWithinTotal ==
    ExactTotal =>
        \A k \in 1..Len(snapshots) : snapshots[k].loaded <= snapshots[k].total

\* The page requests of the trace.
PageRequests == {k \in 1..Len(trace) : IsPageRequest(k)}

RECURSIVE SumRows(_)
SumRows(k) == IF k = 0 THEN 0
              ELSE SumRows(k - 1) + (IF IsPageRequest(k) THEN trace[k].rows ELSE 0)

\* The rows the index returned in the pages of the run.
RowsPaged == SumRows(Len(trace))

\* The call resolves a selection of one project item with max no less than
\* the rows of the project, and the index has answered its page requests
\* with full pages followed by one short page.
OneProjectPaged ==
    /\ EntriesReturned
    /\ Len(call.items) = 1
    /\ call.items[1].type = "project"
    /\ PageRequests # {}
    /\ \A k \in PageRequests : trace[k].shape = "rows"
    /\ RowsPaged <= call.max
    /\ \A k \in PageRequests :
          IF \E j \in PageRequests : j > k THEN FullPage(k) ELSE ShortPage(k)

\* The run returned n entries and its last snapshot reports n loaded and 100 %.
FinishedWith(n) ==
    /\ Len(frame.result) = n
    /\ \A i, j \in 1..n : frame.result[i] = frame.result[j] => i = j
    /\ snapshots # <<>>
    /\ snapshots[Len(snapshots)].loaded = n
    /\ snapshots[Len(snapshots)].percentage = [nan |-> FALSE, num |-> 100, den |-> 1]

OnePlainTokenResolved ==
    /\ EntriesReturned
    /\ call.max >= 1
    /\ Len(call.items) = 1
    /\ call.items[1].type = "token"
    /\ ~isUniqueId(call.items[1].value)
    /\ \E k \in 1..Len(TokensMetadata) :
          TokensMetadata[k].token_id = call.items[1].value
    /\ \A k \in 1..Len(trace) : trace[k].shape \in {"rows", "nullRow"}

\* C23: a selection of one token item with a plain token id t that exists
\* in the index resolves to exactly one TokenEntry, whose tokenId is t and
\* whose generatorUrl is a non-empty string.
C23_PlainTokenResolvesToOne ==
    OnePlainTokenResolved =>
        /\ Len(frame.result) = 1
        /\ frame.result[1].tokenId = call.items[1].value
        /\ isString(frame.result[1].generatorUrl)
        /\ frame.result[1].generatorUrl # <<>>

\* Such a run has returned an entry whose generatorUrl was composed from the
\* token id and the contract address.
C23_Witness ==
    /\ OnePlainTokenResolved
    /\ Len(frame.result) = 1
    /\ startsWith(frame.result[1].generatorUrl, GeneratorHost)
    /\ Len(frame.result[1].generatorUrl) > Len(GeneratorHost)

\* tokensByIdWithLiveView was called on its own.
ByIdCalled == call.fn = "tokensByIdWithLiveView"

\* The operands of the queries that consecutive chunks of at most ChunkSize
\* identifiers give: for each chunk its composite identifiers, if any, then
\* its plain ones, if any.
RECURSIVE ChunkOperands(_)
ChunkOperands(ids) ==
    IF ids = <<>> THEN <<>>
    ELSE LET n == Min(ChunkSize, Len(ids))
             c == SubSeq(ids, 1, n)
             u == SelectSeq(c, isUniqueId)
             p == SelectSeq(c, LAMBDA id : ~isUniqueId(id))
         IN  (IF u # <<>> THEN <<u>> ELSE <<>>) \o (IF p # <<>> THEN <<p>> ELSE <<>>)
                 \o ChunkOperands(SubSeq(ids, n + 1, Len(ids)))

\* The operands of the requests issued so far.
TraceOperands == [k \in 1..Len(trace) |-> trace[k].query.operand]

\* The rows received so far that carry a token id, in the order received.
RECURSIVE ReceivedUpTo(_)
ReceivedUpTo(k) ==
    IF k = 0 THEN <<>>
    ELSE ReceivedUpTo(k - 1)
            \o (IF trace[k].shape \in {"rows", "nullRow"}
                THEN withTokenId(Rows(trace[k].query)) ELSE <<>>)

\* The key rows are de-duplicated by: the remote row id, else the contract
\* address and the token id, else the token id.
DedupKey(row) ==
    IF row.id # Undefined THEN row.id
    ELSE IF row.contract_address # Undefined
    THEN row.contract_address \o <<DASH>> \o row.token_id
    ELSE row.token_id

\* Of the rows of one key the first.
RECURSIVE FirstSeen(_)
FirstSeen(rows) ==
    IF rows = <<>> THEN <<>>
    ELSE LET before == FirstSeen(SubSeq(rows, 1, Len(rows) - 1))
             last == rows[Len(rows)]
         IN  IF \E k \in 1..Len(before) : DedupKey(before[k]) = DedupKey(last)
             THEN before ELSE Append(before, last)

\* The entries of the rows kept.
EntriesOf(rows) == [k \in 1..Len(rows) |-> TokenEntryById(rows[k])]

\* C24: tokensByIdWithLiveView sends the identifiers in consecutive chunks of
\* at most ChunkSize, every identifier of a processed chunk in exactly one
\* query, and returns the rows received merged first-seen-wins: no two
\* entries of one dedup key, and of the rows of one key the first received.
C24_ChunkedAndMerged ==
    ByIdCalled =>
        /\ Len(TraceOperands) <= Len(ChunkOperands(call.tokenIds))
        /\ TraceOperands = SubSeq(ChunkOperands(call.tokenIds), 1, Len(TraceOperands))
        /\ \A k \in 1..Len(trace) : Len(trace[k].query.operand) \in 1..ChunkSize
        /\ frame.pc = "resolve" =>
              pager.results = EntriesOf(FirstSeen(ReceivedUpTo(Len(trace))))
        /\ frame.pc = "returned" =>
              /\ frame.result
                    = slice(EntriesOf(FirstSeen(ReceivedUpTo(Len(trace)))), 0, call.max)
              /\ Len(TraceOperands) < Len(ChunkOperands(call.tokenIds))
                    => Len(FirstSeen(ReceivedUpTo(Len(trace)))) >= call.max

\* A call over two chunks has returned after receiving a row of a key it had
\* seen, and another row of the same key with different data.
C24_Witness ==
    /\ ByIdCalled
    /\ frame.pc = "returned"
    /\ Len(call.tokenIds) > ChunkSize
    /\ Len(trace) >= 3
    /\ Len(frame.result) >= 2
    /\ Len(FirstSeen(ReceivedUpTo(Len(trace)))) < Len(ReceivedUpTo(Len(trace)))
    /\ \E i, j \in 1..Len(ReceivedUpTo(Len(trace))) :
          /\ i < j
          /\ DedupKey(ReceivedUpTo(Len(trace))[i]) = DedupKey(ReceivedUpTo(Len(trace))[j])
          /\ TokenEntryById(ReceivedUpTo(Len(trace))[i])
                # TokenEntryById(ReceivedUpTo(Len(trace))[j])

\* A composite identifier: 0x..., with a dash.
IsComposite(id) ==
    /\ Len(id) >= 2 /\ id[1] = Code("0") /\ id[2] = Code("x")
    /\ \E k \in 1..Len(id) : id[k] = DASH

\* The row matches the identifier: a composite one by its row id, a plain
\* one by its token id.
Matches(row, id) ==
    IF IsComposite(id) THEN row.id = id ELSE row.token_id = id

\* The rows of the index that match an identifier of the call and carry a
\* token id.
MatchingRows ==
    SelectSeq(TokensMetadata,
              LAMBDA row : /\ row.token_id # Undefined
                           /\ \E k \in 1..Len(call.tokenIds) :
                                 Matches(row, call.tokenIds[k]))

\* C25: tokensByIdWithLiveView takes plain and composite identifiers in one
\* call: composite ones are asked for by row id and plain ones by token id,
\* every entry returned is that of a row matching an identifier of the call,
\* every matching row is returned (up to max, rows of one key once) when the
\* index answers, identifiers matching no row add nothing, the call returns
\* whatever the answers, and an empty input returns the empty list with no
\* request.
C25_MixedIdentifiers ==
    ByIdCalled =>
        /\ \A k \in 1..Len(trace) :
              /\ trace[k].query.table = "tokens_metadata"
              /\ trace[k].query.op = "_in"
              /\ trace[k].query.field \in {"id", "token_id"}
              /\ \A j \in 1..Len(trace[k].query.operand) :
                    /\ trace[k].query.operand[j] \in Range(call.tokenIds)
                    /\ IsComposite(trace[k].query.operand[j])
                          <=> trace[k].query.field = "id"
        /\ frame.pc \in {"called", "resolve", "returned"}
        /\ frame.pc = "resolve" => awaited # NoQuery
        /\ frame.pc = "returned" =>
              /\ \A i \in 1..Len(frame.result) :
                    \E k \in 1..Len(MatchingRows) :
                        frame.result[i] = TokenEntryById(MatchingRows[k])
              /\ (call.max = DEFAULT_MAX /\ \A k \in 1..Len(trace) :
                                               trace[k].shape \in {"rows", "nullRow"}) =>
                    /\ \A id \in Range(call.tokenIds) :
                          \E k \in 1..Len(trace) :
                              id \in Range(trace[k].query.operand)
                    /\ \A k \in 1..Len(MatchingRows) :
                          \E j \in 1..k :
                              /\ DedupKey(MatchingRows[j]) = DedupKey(MatchingRows[k])
                              /\ TokenEntryById(MatchingRows[j]) \in Range(frame.result)
              /\ call.tokenIds = <<>> => frame.result = <<>> /\ trace = <<>>

\* A call with a plain and a composite identifier of tokens of the index and
\* an identifier of none has returned the entries of the two.
C25_Witness ==
    /\ ByIdCalled
    /\ frame.pc = "returned"
    /\ \E i, j, k \in 1..Len(call.tokenIds) :
          /\ IsComposite(call.tokenIds[i]) /\ ~IsComposite(call.tokenIds[j])
          /\ \A n \in 1..Len(TokensMetadata) : ~Matches(TokensMetadata[n], call.tokenIds[k])
          /\ \E n \in 1..Len(MatchingRows) : Matches(MatchingRows[n], call.tokenIds[i])
          /\ \E n \in 1..Len(MatchingRows) : Matches(MatchingRows[n], call.tokenIds[j])
    /\ Len(frame.result) >= 2
    /\ \E k \in 1..Len(trace) : trace[k].query.field = "id"
    /\ \E k \in 1..Len(trace) : trace[k].query.field = "token_id"

\* The functions that build TokenEntry values.
BuildsEntries(fn) ==
    fn \in {"resolveSelectionToTokenEntries", "tokensByIdWithLiveView",
            "searchTokensWithLiveView", "searchTokensWithLiveViewProgressive"}

\* The entries the call holds, has reported or has returned.
EntriesBuilt ==
    (IF BuildsEntries(pager.fn) THEN Range(pager.results) ELSE {})
        \cup Range(values(frame.entriesMap))
        \cup (IF BuildsEntries(call.fn) THEN Range(frame.result) ELSE {})
        \cup UNION {Range(snapshots[k].entries) : k \in 1..Len(snapshots)}

\* C26 (as the specification states it): no TokenEntry built by a resolver or
\* a pager has an empty tokenId, whatever rows the index returns.
C26_NoEmptyTokenId ==
    \A e \in EntriesBuilt : e.tokenId # <<>> /\ e.tokenId # Undefined

\* The calls of fn that name what arg names, in any letter case.
SameName(fn, arg) ==
    {a \in EnsArgs : a.fn = fn /\ toLowerCase(a.arg) = toLowerCase(arg)}

\* The lookup at id has returned a result that is not null, at most 24 hours
\* ago.
ReturnedWithin24h(id) ==
    /\ lookups[id].pc = "done"
    /\ lookups[id].result.state = "value"
    /\ now - lookups[id].doneAt <= ENS_CACHE_TTL

\* The latest lookup under the key of the lookup at id.
LatestOfKey(id) ==
    \A j \in 1..Len(lookups) : lookups[j].key = lookups[id].key => j <= id

\* C27 (as the specification states it): within 24 hours of a lookup that
\* returned a result, every call for the same name or address, in any letter
\* case, returns that result with no network call; at most one lookup per key
\* is in flight, and the calls made meanwhile share it; a lookup that
\* returned null is not cached, and the next call starts a new lookup.
C27_NamesCachedFor24h ==
    \A id \in 1..Len(lookups) :
        /\ ReturnedWithin24h(id) =>
              \A a \in SameName(lookups[id].fn, lookups[id].arg) :
                  /\ ensCallResult(a.fn, a.arg).kind = "hit"
                  /\ ensCallResult(a.fn, a.arg).result = lookups[id].result
        /\ lookups[id].pc # "done" =>
              /\ \A j \in 1..Len(lookups) :
                    (lookups[j].pc # "done" /\ lookups[j].key = lookups[id].key)
                        => j = id
              /\ \A a \in SameName(lookups[id].fn, lookups[id].arg) :
                    /\ ensCallResult(a.fn, a.arg).kind = "pending"
                    /\ ensCallResult(a.fn, a.arg).lookup = id
        /\ (lookups[id].pc = "done" /\ lookups[id].result.state = "null"
               /\ LatestOfKey(id)) =>
              \A a \in SameName(lookups[id].fn, lookups[id].arg) :
                  ensCallResult(a.fn, a.arg).kind = "new"

\* An answer of the run was null, not an array, or had a null among its rows.
FailedAnswers == {k \in 1..Len(trace) : trace[k].shape \in {"null", "notArray", "nullRow"}}

\* The token ids of the entries of a snapshot.
SnapshotIds(k) == {snapshots[k].entries[j].tokenId : j \in 1..Len(snapshots[k].entries)}

\* The token ids of a list of entries, in its order.
TokenIdsOf(entries) == [j \in 1..Len(entries) |-> entries[j].tokenId]

\* The tokens a snapshot has shown are in every later snapshot, and the run
\* returns the tokens of its last snapshot, up to max of them.
EntriesKept ==
    call.fn = "resolveSelectionToTokenEntries" =>
        /\ \A k \in 1..(Len(snapshots) - 1) : SnapshotIds(k) \subseteq SnapshotIds(k + 1)
        /\ frame.pc = "returned" =>
              TokenIdsOf(frame.result)
                  = slice(TokenIdsOf(snapshots[Len(snapshots)].entries), 0, call.max)

\* The item at index i was processed: a token item of the id resolver is added
\* with no request, any other item has a request of its own in the trace.
Processed(i) ==
    \/ call.fn = "resolveSelectionTokenIds" /\ call.items[i].type = "token"
    \/ \E k \in 1..Len(trace) :
          trace[k].item = i /\ trace[k].query.name # "ProjectInvocations"

\* A resolver that has returned has processed every item, unless it has
\* returned max results.
LaterItemsProcessed ==
    /\ call.fn \in {"resolveSelectionToTokenEntries", "resolveSelectionTokenIds"}
    /\ frame.pc = "returned"
    => \/ Len(frame.result) >= call.max
       \/ \A i \in 1..Len(call.items) : Processed(i)

\* C28: the resolution functions never throw or reject for an expected
\* failure (a null page, a payload that is not an array, a row that is null
\* or has missing or wrongly-typed fields): the failure ends the paging of
\* the item or skips the row, the entries accumulated so far are kept, later
\* items are still processed, and the call returns.
C28_NeverThrows ==
    /\ frame.pc # "threw"
    /\ EntriesKept
    /\ LaterItemsProcessed

\* The step is a callback of the run at r: a snapshot of it is delivered or
\* its promise is fulfilled.
CallbackOf(r) ==
    loads'[r].shown # loads[r].shown \/ loads'[r].pc # loads[r].pc

\* C29: once the load effect that started a run was cleaned up (the component
\* unmounted or the selection parameter changed), neither a later onProgress
\* snapshot of that run nor its resolved array changes the gallery state.
C29_CancelledRunIsIgnored ==
    [][\A r \in 1..Len(loads) :
          loads[r].cancelled /\ Len(loads') = Len(loads) /\ CallbackOf(r)
              => gallery' = gallery]_vars

\* The last n characters of s.
LastChars(s, n) == SubSeq(s, Len(s) - n + 1, Len(s))

\* C30: truncateEthAddress(address, prefixLength, suffixLength) returns the
\* address unchanged when it is empty or its length is at most prefixLength +
\* suffixLength, and otherwise its first prefixLength characters, then
\* '...', then its last suffixLength characters (defaults 6 and 4).
C30_TruncatesToPrefixAndSuffix ==
    truncation # <<>> /\ truncation.pc = "returned" =>
        LET a == truncation.address
            p == truncation.prefixLength
            s == truncation.suffixLength
        IN  truncation.result =
                IF a = <<>> \/ Len(a) <= p + s THEN a
                ELSE SubSeq(a, 1, p) \o Ellipsis \o LastChars(a, s)

\* The requests searchTokensByCollector sends for the tokens of the owners.
OwnershipQueries ==
    {k \in 1..Len(trace) :
        /\ trace[k].fn = "searchTokensByCollector"
        /\ trace[k].query.table = "tokens_metadata"}

\* C31 (as the specification states it): every token-ownership query of
\* searchTokensByCollector filters owner_address by an exact match (_in the
\* resolved addresses, or _eq an address), whatever the collector term is and
\* whether or not it resolves to an address; the raw term is never matched
\* against owner_address by a contains pattern.
C31_OwnershipByExactMatch ==
    \A k \in OwnershipQueries :
        /\ trace[k].query.field = "owner_address"
        /\ trace[k].query.op \in {"_in", "_eq"}

\* The request of the trace that asked for the invocations of item i.
InvocationsRequest(i) ==
    CHOOSE k \in 1..Len(trace) :
        trace[k].query.name = "ProjectInvocations" /\ trace[k].item = i

\* The invocation count the index publishes for the project of item i, as
\* the answer to the request carried it, or the fallback when it carried none.
PublishedOrFallback(i) ==
    LET k == InvocationsRequest(i)
        rows == Rows(trace[k].query)
    IN  IF trace[k].shape = "rows" /\ Len(rows) > 0 /\ isNumber(rows[1].invocations)
        THEN rows[1].invocations
        ELSE PROJECT_ESTIMATE

\* The estimate of the items up to the one at index i.
RECURSIVE EstimateUpTo(_)
EstimateUpTo(i) ==
    IF i = 0 THEN 0
    ELSE EstimateUpTo(i - 1)
         + (IF call.items[i].type = "token" THEN 1
            ELSE IF call.items[i].type = "project" THEN PublishedOrFallback(i)
            ELSE IF call.items[i].type = "artist" THEN ARTIST_ESTIMATE
            ELSE COLLECTOR_ESTIMATE)

\* C32: resolveSelectionToTokenEntries asks for the invocation counts, and
\* for nothing else, before its first snapshot; the first snapshot has
\* loaded = 0 and is delivered before any token request is sent; and every
\* snapshot of the run has the same total, min(max, estimate), where the
\* estimate adds 1 for a token, the published invocation count (or 1000) for
\* a project, 5000 for an artist and 1000 for a collector.
C32_TotalEstimatedFirst ==
    call.fn = "resolveSelectionToTokenEntries" =>
        /\ \A k \in 1..Len(trace) :
              (trace[k].query.name = "ProjectInvocations") <=> (trace[k].delivered = 0)
        /\ snapshots # <<>> => snapshots[1].loaded = 0 /\ snapshots[1].entries = <<>>
        /\ \A s \in 1..Len(snapshots) :
              snapshots[s].total = Min(call.max, EstimateUpTo(Len(call.items)))

\* A run over a project with a published count and an artist has delivered
\* snapshots after its first one, with a total below max's cap or at it.
C32_Witness ==
    /\ EntriesReturned
    /\ Len(call.items) = 2
    /\ call.items[1].type = "project" /\ call.items[2].type = "artist"
    /\ PublishedOrFallback(1) # PROJECT_ESTIMATE
    /\ Len(snapshots) >= 3
    /\ snapshots[Len(snapshots)].loaded > 0
    /\ snapshots[1].total = call.max

\* The snapshots delivered when the step after the request at k has run.
DeliveredAfter(k) ==
    IF k < Len(trace) THEN trace[k + 1].delivered ELSE Len(snapshots)

\* The answered page requests of the progressive pager.
ProgressivePages ==
    {k \in PageRequests :
        trace[k].fn = "searchTokensWithLiveViewProgressive" /\ trace[k].answered}

\* C33: in every snapshot of resolveSelectionToTokenEntries the entries are
\* the whole of entriesMap, as many as loaded; the keys of a snapshot are
\* still there, in the same places, in every later snapshot; and exactly one
\* snapshot is delivered after each page that came with rows, none after an
\* empty one.
C33_SnapshotsAccumulate ==
    call.fn = "resolveSelectionToTokenEntries" =>
        /\ \A s \in 1..Len(snapshots) :
              /\ Len(snapshots[s].entries) = snapshots[s].loaded
              /\ Len(snapshots[s].keys) = snapshots[s].loaded
        /\ \A s, t \in 1..Len(snapshots) :
              s < t =>
                 /\ snapshots[s].loaded <= snapshots[t].loaded
                 /\ \A i \in 1..snapshots[s].loaded :
                       snapshots[t].keys[i] = snapshots[s].keys[i]
        /\ \A k \in ProgressivePages :
              DeliveredAfter(k) = trace[k].delivered
                                    + (IF trace[k].rows > 0 THEN 1 ELSE 0)

\* A run has delivered a snapshot after each of two pages with rows, the
\* later one holding more entries than the earlier one, and none after an
\* empty page that followed.
C33_Witness ==
    /\ EntriesReturned
    /\ \E j, k, l \in ProgressivePages :
          /\ j < k /\ k < l
          /\ trace[j].rows > 0 /\ trace[k].rows > 0 /\ trace[l].rows = 0
          /\ snapshots[trace[j].delivered + 1].loaded > 0
          /\ snapshots[trace[k].delivered + 1].loaded
                > snapshots[trace[j].delivered + 1].loaded

\* The rows asked for by the page requests of the pager call of k that came
\* before k; with answeredOnly, leaving out those that were answered with null.
RECURSIVE AskedBefore(_, _, _)
AskedBefore(k, j, answeredOnly) ==
    IF j = 0 THEN 0
    ELSE AskedBefore(k, j - 1, answeredOnly)
         + (IF j < k /\ j \in SamePagerCall(k) /\ ~(answeredOnly /\ trace[j].null)
            THEN trace[j].query.limit ELSE 0)

\* C34 (as stated): every page request of every pager asks for at most a
\* full page (100 rows), the first window of a pager call starts at offset 0,
\* and each later window starts where the window before it ended, so that
\* the windows requested never overlap and leave no gap.
C34_AsStated ==
    \A k \in PageRequests :
        /\ trace[k].query.limit <= PageSize
        /\ trace[k].query.offset = AskedBefore(k, k, FALSE)

\* C34 (amended): the same for the windows of the requests that were not
\* answered with null; after a null answer searchTokensByGraphQLAll asks for
\* the same window again, and no other pager asks for anything.
C34_WindowsTile ==
    \A k \in PageRequests :
        /\ trace[k].query.limit <= PageSize
        /\ trace[k].query.offset = AskedBefore(k, k, TRUE)
        /\ \A j \in SamePagerCall(k) :
              (j < k /\ trace[j].null) =>
                 /\ trace[k].fn = "searchTokensByGraphQLAll"
                 /\ \E l \in SamePagerCall(k) :
                       l > j /\ l <= k /\ trace[l].query = trace[j].query

\* The progressive pager, given an initial batch smaller than a page, has
\* asked for a first window of that size and then for two windows of a full
\* page, each starting where the one before ended.
C34_Witness ==
    \E j, k, l \in PageRequests :
        /\ trace[j].fn = "searchTokensWithLiveViewProgressive"
        /\ {j, k, l} \subseteq SamePagerCall(j)
        /\ trace[j].query.offset = 0 /\ trace[j].query.limit < PageSize
        /\ trace[k].query.offset = trace[j].query.limit
        /\ trace[k].query.limit = PageSize
        /\ trace[l].query.offset = trace[j].query.limit + PageSize

\* In this step the closure of request id calls fetch.
FetchStarts(id) ==
    /\ reqs'[id].pc = "fetching"
    /\ (id > Len(reqs) \/ reqs'[id].attempts > reqs[id].attempts)

\* C35 (as the specification states it): any two fetches graphqlRequest
\* starts, first attempts and retries of all requests alike, start at least
\* MIN_REQUEST_INTERVAL apart: when a fetch starts, the one before it is at
\* least that old.
C35_AllFetchesSpaced ==
    [][\A id \in 1..Len(reqs') :
          FetchStarts(id) => now - lastFetch >= MIN_REQUEST_INTERVAL]_vars

\* The entry of the key is there and its TTL has run out.
Expired(key) ==
    requestCache[key].present /\ now - requestCache[key].timestamp > requestCache[key].ttl

\* In this step the fetch of request id is answered with data.
SucceedsWith(id) ==
    /\ reqs[id].pc = "fetching"
    /\ reqs'[id].pc = "done"
    /\ reqs'[id].result \in Data

\* C36: a call is answered from the cache exactly when the entry of its key
\* is present and now - timestamp <= ttl, the instant timestamp + ttl
\* included; while an entry is served no promise of its key is in pending,
\* so the first call after the expiry finds none and creates a request; a
\* fetch answered with data replaces the entry by one with that data and the
\* timestamp of that instant; and no entry is ever removed, nor changed
\* other than by such a write: an expired entry stays in the map until it
\* is replaced.
C36_ServedUntilTTL ==
    /\ [](\A key \in Keys :
            /\ callResult(key).kind = "hit"
                  <=> (requestCache[key].present
                         /\ now - requestCache[key].timestamp <= requestCache[key].ttl)
            /\ callResult(key).kind = "hit" => callResult(key).data = requestCache[key].data
            /\ CachedWithinTTL(key) => pending[key] = 0
            /\ (Expired(key) /\ pending[key] = 0) => callResult(key).kind = "new")
    /\ [][/\ \A id \in 1..Len(reqs) :
               SucceedsWith(id) =>
                  requestCache'[reqs[id].key] =
                      [present |-> TRUE, data |-> reqs'[id].result,
                       timestamp |-> now, ttl |-> CACHE_TTL]
          /\ \A key \in Keys :
               /\ requestCache[key].present => requestCache'[key].present
               /\ (requestCache'[key].data # requestCache[key].data
                      \/ requestCache'[key].timestamp > requestCache[key].timestamp) =>
                     \E id \in 1..Len(reqs) :
                        /\ reqs[id].key = key /\ reqs[id].pc = "fetching"
                        /\ reqs'[id].pc = "done"
                        /\ requestCache'[key].timestamp = now]_vars

\* The entry of a key has expired one millisecond ago and is still in the
\* map, while the request a call made after the expiry is fetching.
C36_Witness ==
    \E id \in 1..Len(reqs) :
        /\ reqs[id].pc = "fetching"
        /\ Expired(reqs[id].key)
        /\ now - requestCache[reqs[id].key].timestamp = CACHE_TTL + 1
        /\ requestCache[reqs[id].key].data \in Data

\* C37 (as stated): when resolveSelectionToTokenEntries has returned, the
\* entries of the last snapshot it delivered are the array it returns: the
\* same entries in the same order.
C37_LastSnapshotIsResult ==
    (EntriesReturned /\ snapshots # <<>>) =>
        snapshots[Len(snapshots)].entries = frame.result

\* The limiter under the budget of Spec, with the event loop running every
\* timer that is due and every fetch settling.
FairSpec == Init /\ [][Next]_vars /\ Fairness

\* C38: processRequestQueue runs at most once at a time, and
\* isProcessingQueue is true exactly while it runs: the flag is set exactly
\* when the drainer is suspended at its setTimeout, and between two steps of
\* the program requests wait in requestQueue exactly while the drainer is
\* suspended there, with its timer due within MIN_REQUEST_INTERVAL, so no
\* request is left in the queue with nobody to send it; every request
\* pushed is dispatched in the end, also one pushed while the drainer
\* sleeps behind another request.
C38_SingleDrainerNoLostWakeup ==
    /\ [](/\ isProcessingQueue <=> drainer.state = "sleeping"
          /\ drainer.state \in {"idle", "sleeping"}
          /\ requestQueue # <<>> <=> drainer.state = "sleeping"
          /\ drainer.state = "sleeping" => drainer.wake <= MIN_REQUEST_INTERVAL
          /\ \A i \in 1..Len(requestQueue) :
                /\ reqs[requestQueue[i]].pc = "queued"
                /\ \A j \in 1..Len(requestQueue) : requestQueue[i] = requestQueue[j] => i = j
          /\ \A id \in 1..Len(reqs) :
                reqs[id].pc = "queued" => \E i \in 1..Len(requestQueue) : requestQueue[i] = id)
    /\ \A id \in 1..RetryRequests :
          (Len(reqs) >= id /\ reqs[id].pc = "queued")
              ~> (Len(reqs) >= id /\ reqs[id].pc # "queued")

\* A request is pushed while the drainer sleeps with another request waiting.
C38_Witness ==
    /\ drainer.state = "sleeping"
    /\ Len(requestQueue) = 2
    /\ shortTicks > 0

\* C39 (as stated): pending holds a promise under a key exactly while the
\* request of that key is unsettled, whatever path the request takes, a
\* failure before its first network call included; and no call is answered
\* with a promise that has already settled.
C39_PendingWhileUnsettled ==
    \A key \in Keys :
        /\ pending[key] # 0 <=>
              \E id \in 1..Len(reqs) : reqs[id].key = key /\ reqs[id].result = "pending"
        /\ callResult(key).kind = "joined" =>
              reqs[callResult(key).promise].result = "pending"

\* C40: in useGridData, once a newer call of loadTokens has delivered its
\* result or its error, the continuation of an earlier call that was still
\* awaiting changes nothing of the hook's state; and no continuation changes
\* the state once the component has unmounted.
GridRunResumes(r) ==
    /\ r <= Len(gridLoads)
    /\ gridLoads[r].pc = "awaiting"
    /\ gridLoads'[r].pc = "done"

C40_SupersededLoadWritesNothing ==
    [][\A r \in 1..MaxGridLoads :
          (/\ GridRunResumes(r)
           /\ \/ ~gridMounted
              \/ \E n \in (r + 1)..Len(gridLoads) : gridLoads[n].pc = "done")
          => gridState' = gridState]_vars
====
